---------------------------- MODULE Spec2Model ----------------------------
(***************************************************************************)
(* Model of the passage-of-time core: the four-layer fuzzy timestamp       *)
(* parser (passageoftime/parser.go), the strict parser ParseTimestamp      *)
(* (passageoftime/compat.go) and the library calls they rest on.           *)
(*                                                                         *)
(* Text is a TLA+ string; Ch(s, i) is its i-th character.  An instant is   *)
(* a record [unix, ms]: whole seconds since 1970-01-01T00:00:00Z and the   *)
(* millisecond within the second.  A time.Time is an instant plus the      *)
(* location it is rendered in: [unix, ms, loc].                            *)
(***************************************************************************)
EXTENDS Integers, Sequences, FiniteSets, TLC

(***************************************************************************)
(* Bounds of the model.                                                    *)
(***************************************************************************)
\* longest string of the exhaustive short-input universe
MaxLen == 3
\* largest count n in the generated "<n><unit>" inputs
MaxN == 3

\* the calls a process has returned from before the one that is followed
MaxCalls == 2

(***************************************************************************)
(* Characters and strings.                                                 *)
(***************************************************************************)
\* the characters a..b of s that exist (Go's s[a-1:b], clipped to the string)
Sub(s, a, b) ==
  SubSeq(s, IF a < 1 THEN 1 ELSE a, IF b > Len(s) THEN Len(s) ELSE b)

\* the i-th character of s, "" when s has none
Ch(s, i) == IF 1 <= i /\ i <= Len(s) THEN SubSeq(s, i, i) ELSE ""

Digits == {"0", "1", "2", "3", "4", "5", "6", "7", "8", "9"}

IsDigit(c) == c \in Digits

DigitVal(c) ==
  CASE c = "0" -> 0 [] c = "1" -> 1 [] c = "2" -> 2 [] c = "3" -> 3
    [] c = "4" -> 4 [] c = "5" -> 5 [] c = "6" -> 6 [] c = "7" -> 7
    [] c = "8" -> 8 [] c = "9" -> 9

\* unicode.IsSpace on the characters the model uses
IsSpace(c) == c \in {" ", "\t", "\n", "\r"}

AllDigits(s) == Len(s) > 0 /\ \A i \in 1..Len(s) : IsDigit(Ch(s, i))

\* strconv.Atoi on a non-empty string of digits
RECURSIVE Atoi(_)
Atoi(s) ==
  IF Len(s) = 0 THEN 0
  ELSE Atoi(Sub(s, 1, Len(s) - 1)) * 10 + DigitVal(Ch(s, Len(s)))

\* fmt's %d of a natural number
RECURSIVE Itoa(_)
Itoa(n) ==
  IF n < 10 THEN Ch("0123456789", n + 1)
  ELSE Itoa(n \div 10) \o Ch("0123456789", (n % 10) + 1)

\* strings.TrimSpace
RECURSIVE TrimLeft(_)
TrimLeft(s) ==
  IF Len(s) > 0 /\ IsSpace(Ch(s, 1)) THEN TrimLeft(Sub(s, 2, Len(s))) ELSE s

RECURSIVE TrimRight(_)
TrimRight(s) ==
  IF Len(s) > 0 /\ IsSpace(Ch(s, Len(s)))
  THEN TrimRight(Sub(s, 1, Len(s) - 1)) ELSE s

TrimSpace(s) == TrimRight(TrimLeft(s))

\* strings.Fields: the maximal runs of non-space characters, in order
RECURSIVE FieldsFrom(_, _, _)
FieldsFrom(s, i, cur) ==
  IF i > Len(s) THEN (IF cur = "" THEN << >> ELSE << cur >>)
  ELSE IF IsSpace(Ch(s, i))
       THEN (IF cur = "" THEN << >> ELSE << cur >>) \o FieldsFrom(s, i + 1, "")
       ELSE FieldsFrom(s, i + 1, cur \o Ch(s, i))

Fields(s) == FieldsFrom(s, 1, "")

\* the lower-case form of a character ((?i) in a regular expression)
LowerCh(c) ==
  IF \E i \in 1..26 : Ch("ABCDEFGHIJKLMNOPQRSTUVWXYZ", i) = c
  THEN Ch("abcdefghijklmnopqrstuvwxyz",
          CHOOSE i \in 1..26 : Ch("ABCDEFGHIJKLMNOPQRSTUVWXYZ", i) = c)
  ELSE c

RECURSIVE ToLower(_)
ToLower(s) == IF s = "" THEN "" ELSE LowerCh(Ch(s, 1)) \o ToLower(Sub(s, 2, Len(s)))

\* strings.Contains: the text s has sub in it
Contains(s, sub) ==
  \E i \in 1..(Len(s) - Len(sub) + 1) : Sub(s, i, i + Len(sub) - 1) = sub

(***************************************************************************)
(* The proleptic Gregorian calendar of package time.                       *)
(***************************************************************************)
IsLeap(y) == y % 4 = 0 /\ (y % 100 # 0 \/ y % 400 = 0)

DaysIn(m, y) ==
  CASE m \in {1, 3, 5, 7, 8, 10, 12} -> 31
    [] m \in {4, 6, 9, 11} -> 30
    [] OTHER -> IF IsLeap(y) THEN 29 ELSE 28

\* days from 1970-01-01 to y-m-d, for any integer d (days before the first
\* or after the last of the month count on, as time.Date normalises them)
daysOfEra(era, yoe, doy) ==
  era * 146097 + yoe * 365 + yoe \div 4 - yoe \div 100 + doy - 719468

\* yy: the year that starts in March
daysOfYear(yy, m, d) ==
  daysOfEra(yy \div 400, yy % 400, (153 * ((m + 9) % 12) + 2) \div 5 + d - 1)

DaysFromCivil(y, m, d) == daysOfYear(IF m <= 2 THEN y - 1 ELSE y, m, d)

\* the civil date of day number z
civilOfMonth(era, yoe, doy, mp) ==
  [year  |-> yoe + era * 400 + (IF mp < 10 THEN 0 ELSE 1),
   month |-> IF mp < 10 THEN mp + 3 ELSE mp - 9,
   day   |-> doy - (153 * mp + 2) \div 5 + 1]

civilOfYearDay(era, yoe, doy) == civilOfMonth(era, yoe, doy, (5 * doy + 2) \div 153)

civilOfYear(era, doe, yoe) ==
  civilOfYearDay(era, yoe, doe - (365 * yoe + yoe \div 4 - yoe \div 100))

\* era: the 400-year cycle, doe: the day within it
civilOfEra(era, doe) ==
  civilOfYear(era, doe,
              (doe - doe \div 1460 + doe \div 36524 - doe \div 146096) \div 365)

CivilFromDays(z) == civilOfEra((z + 719468) \div 146097, (z + 719468) % 146097)

\* 0 = Sunday .. 6 = Saturday
WeekdayOfDays(z) == (z + 4) % 7

\* seconds since the epoch of a wall clock read as if it were UTC; month
\* and day may lie outside their ranges and are normalised as time.Date does
WallSeconds(y, m, d, hh, mi, ss) ==
  DaysFromCivil(y + (m - 1) \div 12, ((m - 1) % 12) + 1, d) * 86400
    + hh * 3600 + mi * 60 + ss

(***************************************************************************)
(* Locations: time.LoadLocation and the zone lookup of package time.       *)
(***************************************************************************)
Locations == {"UTC", "America/New_York", "Asia/Tokyo"}

\* time.LoadLocation: the empty name and "UTC" are UTC, a name the timezone
\* database does not know is an error
LoadLocation(name) ==
  IF name = "" THEN [ok |-> TRUE, loc |-> "UTC"]
  ELSE IF name \in Locations THEN [ok |-> TRUE, loc |-> name]
  ELSE [ok |-> FALSE, loc |-> "UTC"]

\* A location that is not a name of the database is the fixed zone a parsed
\* text carried, named by that text ("+09:00", "-05:00"): time.FixedZone
FixedZoneOffset(z) ==
  LET Signed(secs) == IF Ch(z, 1) = "-" THEN -secs ELSE secs
  IN Signed(((DigitVal(Ch(z, 2)) * 10 + DigitVal(Ch(z, 3))) * 60
             + DigitVal(Ch(z, 5)) * 10 + DigitVal(Ch(z, 6))) * 60)

\* the day number of the first Sunday on or after y-m-d
SundayOnOrAfter(y, m, d) ==
  LET Forward(z) == z + ((7 - WeekdayOfDays(z)) % 7)
  IN Forward(DaysFromCivil(y, m, d))

\* America/New_York since 2007: daylight time from the second Sunday of
\* March, 02:00 EST, to the first Sunday of November, 02:00 EDT
DstStart(y) == SundayOnOrAfter(y, 3, 8) * 86400 + 7 * 3600

DstEnd(y) == SundayOnOrAfter(y, 11, 1) * 86400 + 6 * 3600

\* Location.lookup: the offset in force at instant u and the bounds
\* [start, end) of the period it is in force
newYorkPeriod(u, prevEnd, start, end, nextStart) ==
  IF u < start
  THEN [offset |-> -18000, start |-> prevEnd, end |-> start]
  ELSE IF u < end
  THEN [offset |-> -14400, start |-> start, end |-> end]
  ELSE [offset |-> -18000, start |-> end, end |-> nextStart]

newYorkZone(u, y) ==
  newYorkPeriod(u, DstEnd(y - 1), DstStart(y), DstEnd(y), DstStart(y + 1))

ZoneLookup(loc, u) ==
  IF loc = "America/New_York"
  THEN newYorkZone(u, CivilFromDays(u \div 86400).year)
  ELSE IF loc = "Asia/Tokyo"
  THEN [offset |-> 32400, start |-> -2147483647, end |-> 2147483647]
  ELSE IF loc = "UTC"
  THEN [offset |-> 0, start |-> -2147483647, end |-> 2147483647]
  ELSE [offset |-> FixedZoneOffset(loc), start |-> -2147483647, end |-> 2147483647]

(***************************************************************************)
(* time.Time values.                                                       *)
(***************************************************************************)
MkTime(unix, ms, loc) == [unix |-> unix, ms |-> ms, loc |-> loc]

\* the zero time.Time (year 1), which no parse of the model produces
ZeroTime == [unix |-> -2147483647, ms |-> 0, loc |-> "UTC"]

\* Time.In
In(t, loc) == [t EXCEPT !.loc = loc]

\* the wall clock of t in its location: Time.Date and Time.Clock
wallOfLocal(w) ==
  LET Clock(c, s) ==
        [year |-> c.year, month |-> c.month, day |-> c.day,
         hour |-> s \div 3600, minute |-> (s % 3600) \div 60, second |-> s % 60]
  IN Clock(CivilFromDays(w \div 86400), w % 86400)

Wall(t) == wallOfLocal(t.unix + ZoneLookup(t.loc, t.unix).offset)

\* time.Date: the instant of a wall clock in a location.  The zone is
\* looked up at the wall clock read as UTC, and looked up again at the
\* resulting instant when that falls outside the period found first.
\* the offset in force at utc, the instant the zone z1 found first gives
dateOffset(loc, utc, z1) ==
  IF z1.offset = 0 THEN 0
  ELSE IF utc < z1.start \/ utc >= z1.end
       THEN ZoneLookup(loc, utc).offset
       ELSE z1.offset

dateInZone(unix, ms, loc, z1) ==
  MkTime(unix - dateOffset(loc, unix - z1.offset, z1), ms, loc)

dateOfWall(unix, ms, loc) == dateInZone(unix, ms, loc, ZoneLookup(loc, unix))

GoDate(y, m, d, hh, mi, ss, ms, loc) ==
  dateOfWall(WallSeconds(y, m, d, hh, mi, ss), ms, loc)

\* Time.AddDate: calendar addition on the wall clock of t
addDateToWall(t, w, years, months, days) ==
  GoDate(w.year + years, w.month + months, w.day + days,
         w.hour, w.minute, w.second, t.ms, t.loc)

AddDate(t, years, months, days) == addDateToWall(t, Wall(t), years, months, days)

\* Time.Add of a duration of sec seconds and ms milliseconds (either sign)
AddDuration(t, sec, ms) ==
  LET total == t.ms + ms
  IN MkTime(t.unix + sec + total \div 1000, total % 1000, t.loc)

\* Time.Sub in whole seconds (the model's instants differ by whole seconds
\* wherever Sub is applied to them)
SubSeconds(a, b) == a.unix - b.unix

\* Time.Sub, the millisecond part
SubMillis(a, b) == a.ms - b.ms

(***************************************************************************)
(* time.Parse and time.ParseInLocation for the layouts ParseTimestamp      *)
(* uses.  A layout is named by its Go text.                                *)
(***************************************************************************)
RFC3339 == "2006-01-02T15:04:05Z07:00"

RFC3339Nano == "2006-01-02T15:04:05.999999999Z07:00"

LayoutISO == "2006-01-02T15:04:05"

LayoutISOMillis == "2006-01-02T15:04:05.000"

LayoutFull == "2006-01-02 15:04:05"

LayoutDate == "2006-01-02"

ParseFail == [ok |-> FALSE, t |-> ZeroTime]

ParseOk(t) == [ok |-> TRUE, t |-> t]

\* the number of consecutive digits of s from position i on
RECURSIVE DigitRun(_, _)
DigitRun(s, i) ==
  IF i <= Len(s) /\ IsDigit(Ch(s, i)) THEN 1 + DigitRun(s, i + 1) ELSE 0

\* parseNanoseconds, to the millisecond: the first three fractional digits,
\* a shorter fraction scaled up (".5" is 500 ms)
FracMillis(digits) ==
  LET d3 == Sub(digits \o "00", 1, 3) IN Atoi(d3)

\* the zone of an RFC 3339 text: "Z", or a sign, two digits, a colon and
\* two digits; the offset is in seconds east of UTC
zoneOffset(z, hh, mm) ==
  IF hh <= 24 /\ mm <= 60
  THEN [ok |-> TRUE,
        offset |-> (IF Ch(z, 1) = "-" THEN -1 ELSE 1) * (hh * 60 + mm) * 60]
  ELSE [ok |-> FALSE, offset |-> 0]

ParseZone(z) ==
  IF z = "Z" THEN [ok |-> TRUE, offset |-> 0]
  ELSE IF Len(z) = 6 /\ Ch(z, 1) \in {"+", "-"} /\ AllDigits(Sub(z, 2, 3))
          /\ Ch(z, 4) = ":" /\ AllDigits(Sub(z, 5, 6))
       THEN zoneOffset(z, Atoi(Sub(z, 2, 3)), Atoi(Sub(z, 5, 6)))
       ELSE [ok |-> FALSE, offset |-> 0]

\* time.ParseInLocation(layout, value, loc); time.Parse is the same with the
\* location UTC.  The year is four digits, month, day, minute and second are
\* two digits each, the hour is one or two digits; a fractional second after
\* the seconds is read even when the layout has none; text left over after
\* the layout is an error, and so is a field out of range.
\* the time of the fields read: d the date, c the clock, ms the fraction,
\* rest the text after them and zone its reading as a zone
layoutTime(layout, loc, d, c, ms, rest, zone) ==
  IF ~(/\ d.month \in 1..12 /\ d.day >= 1 /\ d.day <= DaysIn(d.month, d.year)
       /\ c.hour < 24 /\ c.minute < 60 /\ c.second < 60)
  THEN ParseFail
  ELSE IF layout \in {RFC3339, RFC3339Nano}
  THEN IF zone.ok
       THEN ParseOk(MkTime(WallSeconds(d.year, d.month, d.day,
                                       c.hour, c.minute, c.second)
                             - zone.offset, ms,
                           IF rest = "Z" THEN "UTC" ELSE rest))
       ELSE ParseFail
  ELSE IF rest = ""
       THEN ParseOk(GoDate(d.year, d.month, d.day,
                           c.hour, c.minute, c.second, ms, loc))
       ELSE ParseFail

layoutZone(layout, loc, d, c, ms, rest) ==
  layoutTime(layout, loc, d, c, ms, rest, ParseZone(rest))

\* the fractional second: fracLen digits after the mark at position c.q
layoutFraction(layout, value, loc, d, c, fracLen) ==
  layoutZone(layout, loc, d, c,
             IF fracLen = 0 THEN 0
             ELSE FracMillis(Sub(value, c.q + 1, c.q + fracLen)),
             Sub(value, IF fracLen = 0 THEN c.q ELSE c.q + 1 + fracLen,
                 Len(value)))

\* c.run: the digits that follow a "." or "," at position c.q; the layout
\* with ".000" wants three of them
layoutSeconds(layout, value, loc, d, c) ==
  IF ~c.ok \/ (layout = LayoutISOMillis /\ c.run < 3) THEN ParseFail
  ELSE layoutFraction(layout, value, loc, d, c,
                      IF layout = LayoutISOMillis THEN 3 ELSE c.run)

\* the clock of value, whose first ":" is at position p
layoutClock(value, sep, p) ==
  IF /\ Len(value) >= p + 5
     /\ Ch(value, 11) = sep
     /\ IsDigit(Ch(value, 12))
     /\ Ch(value, p) = ":"
     /\ AllDigits(Sub(value, p + 1, p + 2))
     /\ Ch(value, p + 3) = ":"
     /\ AllDigits(Sub(value, p + 4, p + 5))
  THEN [ok |-> TRUE,
        hour   |-> Atoi(Sub(value, 12, p - 1)),
        minute |-> Atoi(Sub(value, p + 1, p + 2)),
        second |-> Atoi(Sub(value, p + 4, p + 5)),
        q      |-> p + 6,
        run    |-> IF Ch(value, p + 6) \in {".", ","}
                   THEN DigitRun(value, p + 7) ELSE 0]
  ELSE [ok |-> FALSE, hour |-> 0, minute |-> 0, second |-> 0, q |-> 0, run |-> 0]

ParseInLocation(layout, value, loc) ==
  IF /\ Len(value) >= 10
     /\ AllDigits(Sub(value, 1, 4))
     /\ Ch(value, 5) = "-"
     /\ AllDigits(Sub(value, 6, 7))
     /\ Ch(value, 8) = "-"
     /\ AllDigits(Sub(value, 9, 10))
  THEN layoutSeconds(layout, value, loc,
                     [year  |-> Atoi(Sub(value, 1, 4)),
                      month |-> Atoi(Sub(value, 6, 7)),
                      day   |-> Atoi(Sub(value, 9, 10))],
                     IF layout = LayoutDate
                     THEN [ok |-> TRUE, hour |-> 0, minute |-> 0, second |-> 0,
                           q |-> 11, run |-> 0]
                     ELSE layoutClock(value,
                                      IF layout = LayoutFull THEN " " ELSE "T",
                                      IF DigitRun(value, 12) >= 2 THEN 14 ELSE 13))
  ELSE ParseFail

(***************************************************************************)
(* ParseTimestamp (compat.go): the strict parser.                          *)
(***************************************************************************)
ErrInvalidTimezone == "invalid timezone: unknown time zone "

ErrFormatHead == "invalid timestamp format: '"

ErrFormatTail ==
  "'. Expected ISO 8601 (e.g., '2025-07-19T08:45:40.501Z'), 'YYYY-MM-DD HH:MM:SS', or 'YYYY-MM-DD'"

\* a call's outcome: the time and the layer or layout that produced it, or
\* the error text
Success(t, by) == [ok |-> TRUE, t |-> t, by |-> by, err |-> ""]

Failure(msg) == [ok |-> FALSE, t |-> ZeroTime, by |-> "none", err |-> msg]

\* suffixCut without the limit on the length of the third field
suffixCutAny(parts) ==
  IF Len(parts) = 3
  THEN [ok |-> TRUE, dt |-> parts[1] \o " " \o parts[2]]
  ELSE [ok |-> FALSE, dt |-> ""]

\* the date-time an input with a trailing token is cut down to: the first
\* two of exactly three fields, when the third has at most 4 characters
suffixCut(parts) ==
  IF Len(parts) = 3 /\ Len(parts[3]) <= 4
  THEN [ok |-> TRUE, dt |-> parts[1] \o " " \o parts[2]]
  ELSE [ok |-> FALSE, dt |-> ""]

SuffixStripped(timestamp) == suffixCut(Fields(timestamp))

\* lines 234-274: the first layout that reads the timestamp
timestampResult(timestamp, loc, p1, p2, p3, p4, p5, p6, sx, p7) ==
  IF p1.ok THEN Success(In(p1.t, loc), "rfc3339")
  ELSE IF p2.ok THEN Success(In(p2.t, loc), "rfc3339nano")
  ELSE IF p3.ok THEN Success(p3.t, "iso")
  ELSE IF p4.ok THEN Success(p4.t, "isomillis")
  ELSE IF p5.ok THEN Success(p5.t, "full")
  ELSE IF p6.ok THEN Success(p6.t, "date")
  ELSE IF sx.ok /\ p7.ok THEN Success(p7.t, "suffix")
  ELSE Failure(ErrFormatHead \o timestamp \o ErrFormatTail)

\* timestampLayouts with the zoneless layouts read by time.Parse, that is in
\* UTC, not in the target location
timestampLayoutsUTC(timestamp, loc, sx) ==
  timestampResult(timestamp, loc,
                  ParseInLocation(RFC3339, timestamp, "UTC"),
                  ParseInLocation(RFC3339Nano, timestamp, "UTC"),
                  ParseInLocation(LayoutISO, timestamp, "UTC"),
                  ParseInLocation(LayoutISOMillis, timestamp, "UTC"),
                  ParseInLocation(LayoutFull, timestamp, "UTC"),
                  ParseInLocation(LayoutDate, timestamp, "UTC"),
                  sx,
                  ParseInLocation(LayoutFull, sx.dt, "UTC"))

timestampLayouts(timestamp, loc, sx) ==
  timestampResult(timestamp, loc,
                  ParseInLocation(RFC3339, timestamp, "UTC"),
                  ParseInLocation(RFC3339Nano, timestamp, "UTC"),
                  ParseInLocation(LayoutISO, timestamp, loc),
                  ParseInLocation(LayoutISOMillis, timestamp, loc),
                  ParseInLocation(LayoutFull, timestamp, loc),
                  ParseInLocation(LayoutDate, timestamp, loc),
                  sx,
                  ParseInLocation(LayoutFull, sx.dt, loc))

\* lines 225-230: l the location loaded, timestamp the trimmed text
timestampIn(timezone, l, timestamp) ==
  IF ~l.ok THEN Failure(ErrInvalidTimezone \o timezone)
  ELSE timestampLayouts(timestamp, l.loc, SuffixStripped(timestamp))

ParseTimestamp(raw, timezone) ==
  timestampIn(timezone, LoadLocation(timezone), TrimSpace(raw))

(***************************************************************************)
(* Layer 1 (parser.go): relative durations.                                *)
(***************************************************************************)
NoDuration == [ok |-> FALSE, sec |-> 0, ms |-> 0]

\* unitMap of time.ParseDuration, to the millisecond.  The units below the
\* millisecond (ns, us) and fractional counts ("1.5h") are not read by the
\* model: no input of the model carries them.
UnitOf(u) ==
  CASE u = "h"  -> [ok |-> TRUE, sec |-> 3600, ms |-> 0]
    [] u = "m"  -> [ok |-> TRUE, sec |-> 60, ms |-> 0]
    [] u = "s"  -> [ok |-> TRUE, sec |-> 1, ms |-> 0]
    [] u = "ms" -> [ok |-> TRUE, sec |-> 0, ms |-> 1]
    [] OTHER    -> [ok |-> FALSE, sec |-> 0, ms |-> 0]

\* the number of characters of s from position i on that are neither a
\* digit nor a period: the unit text of a duration segment
RECURSIVE UnitRun(_, _)
UnitRun(s, i) ==
  IF i <= Len(s) /\ ~IsDigit(Ch(s, i)) /\ Ch(s, i) # "."
  THEN 1 + UnitRun(s, i + 1) ELSE 0

\* the number of white-space characters of s from position i on
RECURSIVE SpaceRun(_, _)
SpaceRun(s, i) ==
  IF i <= Len(s) /\ IsSpace(Ch(s, i)) THEN 1 + SpaceRun(s, i + 1) ELSE 0

\* the loop of time.ParseDuration over the segments <digits><unit> of s
RECURSIVE DurationSegments(_)
segmentSum(v, unit, rest) ==
  IF ~unit.ok \/ ~rest.ok THEN NoDuration
  ELSE [ok |-> TRUE,
        sec |-> v * unit.sec + rest.sec + (v * unit.ms + rest.ms) \div 1000,
        ms |-> (v * unit.ms + rest.ms) % 1000]

DurationSegments(s) ==
  LET \* a segment of k digits and ul unit characters
      Segment(k, ul) ==
        IF k = 0 \/ ul = 0 THEN NoDuration
        ELSE segmentSum(Atoi(Sub(s, 1, k)), UnitOf(Sub(s, k + 1, k + ul)),
                        DurationSegments(Sub(s, k + ul + 1, Len(s))))
  IN IF s = "" THEN [ok |-> TRUE, sec |-> 0, ms |-> 0]
     ELSE Segment(DigitRun(s, 1), UnitRun(s, DigitRun(s, 1) + 1))

\* time.ParseDuration: an optional sign, then "0" or one or more segments
durationSigned(s, d) ==
  IF ~d.ok THEN NoDuration
  ELSE IF Ch(s, 1) = "-" THEN [ok |-> TRUE, sec |-> -d.sec, ms |-> -d.ms]
  ELSE d

durationBody(s, body) ==
  IF body = "0" THEN [ok |-> TRUE, sec |-> 0, ms |-> 0]
  ELSE IF body = "" THEN NoDuration
  ELSE durationSigned(s, DurationSegments(body))

ParseDuration(s) ==
  durationBody(s, IF Ch(s, 1) \in {"-", "+"} THEN Sub(s, 2, Len(s)) ELSE s)

\* the regular expression ^(-?)(\d+)([dwMy])$ of parseExtendedDuration:
\* the submatches, when the whole of s matches
extendedGroups(s, neg, from, k) ==
  IF k >= 1 /\ from + k = Len(s) /\ Ch(s, from + k) \in {"d", "w", "M", "y"}
  THEN [ok |-> TRUE, neg |-> neg, digits |-> Sub(s, from, from + k - 1),
        unit |-> Ch(s, from + k)]
  ELSE [ok |-> FALSE, neg |-> FALSE, digits |-> "", unit |-> ""]

extendedNumber(s, neg, from) == extendedGroups(s, neg, from, DigitRun(s, from))

\* ExtendedMatch without the closing anchor: ^(-?)(\d+)([dwMy]) matched at
\* the start of s, whatever follows
ExtendedMatchOpen(s) ==
  LET Groups(neg, from, k) ==
        IF k >= 1 /\ Ch(s, from + k) \in {"d", "w", "M", "y"}
        THEN [ok |-> TRUE, neg |-> neg, digits |-> Sub(s, from, from + k - 1),
              unit |-> Ch(s, from + k)]
        ELSE [ok |-> FALSE, neg |-> FALSE, digits |-> "", unit |-> ""]
  IN Groups(Ch(s, 1) = "-", IF Ch(s, 1) = "-" THEN 2 ELSE 1,
            DigitRun(s, IF Ch(s, 1) = "-" THEN 2 ELSE 1))

ExtendedMatch(s) ==
  extendedNumber(s, Ch(s, 1) = "-", IF Ch(s, 1) = "-" THEN 2 ELSE 1)

\* lines 122-137: the switch on the unit
extendedAdd(referenceTime, ymd) ==
  ParseOk(AddDate(referenceTime, ymd[1], ymd[2], ymd[3]))

\* extendedSwitch with every unit a fixed number of seconds (a day 24 hours,
\* a month 30 days, a year 365 days) in place of AddDate
extendedSwitchFixed(referenceTime, unit, value) ==
  ParseOk(AddDuration(referenceTime,
                      value * 86400 * (CASE unit = "d" -> 1 [] unit = "w" -> 7
                                         [] unit = "M" -> 30 [] unit = "y" -> 365),
                      0))

extendedSwitch(referenceTime, unit, value) ==
  extendedAdd(referenceTime,
              CASE unit = "d" -> << 0, 0, value >>
                [] unit = "w" -> << 0, 0, value * 7 >>
                [] unit = "M" -> << 0, value, 0 >>
                [] unit = "y" -> << value, 0, 0 >>)

\* lines 111-120: the count, signed
extendedValue(referenceTime, m, n) ==
  extendedSwitch(referenceTime, m.unit, IF m.neg THEN -n ELSE n)

extendedMatched(referenceTime, m) ==
  IF ~m.ok THEN ParseFail ELSE extendedValue(referenceTime, m, Atoi(m.digits))

parseExtendedDuration(input, referenceTime) ==
  extendedMatched(referenceTime, ExtendedMatch(TrimSpace(input)))

relativeExtended(e) == IF e.ok THEN e ELSE ParseFail

relativeStandard(input, referenceTime, d) ==
  IF d.ok THEN ParseOk(AddDuration(referenceTime, d.sec, d.ms))
  ELSE relativeExtended(parseExtendedDuration(input, referenceTime))

\* parseDurationRelative reading a text of white space alone as a duration
\* of no length
parseDurationRelativeBlank(input, referenceTime) ==
  IF TrimSpace(input) = "" THEN ParseOk(referenceTime)
  ELSE relativeStandard(input, referenceTime, ParseDuration(input))

parseDurationRelative(input, referenceTime) ==
  relativeStandard(input, referenceTime, ParseDuration(input))

(***************************************************************************)
(* Layer 3 (parser.go): the natural-language grammar of the when library   *)
(* and the compound-duration decomposition in front of it.                 *)
(*                                                                         *)
(* when.Parse lets every rule find its first match anywhere in the text,   *)
(* keeps the matches that lie within 5 characters of one another starting  *)
(* from the leftmost, applies them in rule order and adds the outcome to   *)
(* the base time.  The model reads the rules PastTime ("<n> <unit> ago"),  *)
(* Deadline ("in <n> <unit>"), CasualDate ("tomorrow", "yesterday") and    *)
(* Hour ("<h>am", "<h>pm") on whitespace-separated words, with counts      *)
(* written in digits and the units second to week; the inputs of the model *)
(* match no other rule of the library.                                     *)
(***************************************************************************)
\* the words of s with their positions: left is the offset of the first
\* character, right the offset after the last
RECURSIVE TokensFrom(_, _, _, _)
tokenDone(cur, start, i) ==
  IF cur = "" THEN << >>
  ELSE << [w |-> ToLower(cur), left |-> start, right |-> i - 1] >>

TokensFrom(s, i, cur, start) ==
  IF i > Len(s) THEN tokenDone(cur, start, i)
  ELSE IF IsSpace(Ch(s, i))
       THEN tokenDone(cur, start, i) \o TokensFrom(s, i + 1, "", i)
       ELSE TokensFrom(s, i + 1, cur \o Ch(s, i), IF cur = "" THEN i - 1 ELSE start)

Tokens(s) == TokensFrom(s, 1, "", 0)

\* the seconds of one unit word of the rules, 0 for any other word
UnitSeconds(w) ==
  CASE w \in {"second", "seconds"} -> 1
    [] w \in {"min", "mins", "minute", "minutes"} -> 60
    [] w \in {"hour", "hours"} -> 3600
    [] w \in {"day", "days"} -> 86400
    [] w \in {"week", "weeks"} -> 604800
    [] OTHER -> 0

NoMatch == [ok |-> FALSE, left |-> 0, right |-> 0, order |-> 0, value |-> 0]

\* a rule's first match: the least of the indices at which it matches, 0
\* when there is none
FirstIndex(S) ==
  IF S = {} THEN 0 ELSE CHOOSE i \in S : \A j \in S : i <= j

\* en.CasualDate: a day is added for "tomorrow" and taken off for "yesterday"
MatchCasualDate(tk) ==
  LET P(i) == tk[i].w \in {"tomorrow", "yesterday"}
      At(i) ==
        IF i = 0 THEN NoMatch
        ELSE [ok |-> TRUE, left |-> tk[i].left, right |-> tk[i].right, order |-> 2,
              value |-> IF tk[i].w = "tomorrow" THEN 86400 ELSE -86400]
  IN At(FirstIndex({i \in 1..Len(tk) : P(i)}))

\* en.Hour: one or two digits and "am" or "pm"; value is the hour of the
\* day, -1 when the rule declines the match (an hour above 12)
hourShape(w, k) == k \in 1..2 /\ Sub(w, k + 1, Len(w)) \in {"am", "pm"}

hourValue(half, h) ==
  IF h > 12 THEN -1 ELSE IF half = "pm" /\ h < 12 THEN h + 12 ELSE h

hourMatch(t, k) ==
  [ok |-> TRUE, left |-> t.left, right |-> t.right, order |-> 4,
   value |-> hourValue(Sub(t.w, k + 1, k + 2), Atoi(Sub(t.w, 1, k)))]

MatchHour(tk) ==
  LET P(i) == hourShape(tk[i].w, DigitRun(tk[i].w, 1))
      At(i) == IF i = 0 THEN NoMatch ELSE hourMatch(tk[i], DigitRun(tk[i].w, 1))
  IN At(FirstIndex({i \in 1..Len(tk) : P(i)}))

\* en.Deadline: "in" or "within", a count and a unit
MatchDeadline(tk) ==
  LET P(i) == /\ i + 2 <= Len(tk)
              /\ tk[i].w \in {"in", "within"}
              /\ AllDigits(tk[i + 1].w)
              /\ UnitSeconds(tk[i + 2].w) > 0
      At(i) ==
        IF i = 0 THEN NoMatch
        ELSE [ok |-> TRUE, left |-> tk[i].left, right |-> tk[i + 2].right,
              order |-> 6,
              value |-> Atoi(tk[i + 1].w) * UnitSeconds(tk[i + 2].w)]
  IN At(FirstIndex({i \in 1..Len(tk) : P(i)}))

\* en.PastTime: a count, a unit and "ago"
MatchPastTime(tk) ==
  LET P(i) == /\ i + 2 <= Len(tk)
              /\ AllDigits(tk[i].w)
              /\ UnitSeconds(tk[i + 1].w) > 0
              /\ tk[i + 2].w = "ago"
      At(i) ==
        IF i = 0 THEN NoMatch
        ELSE [ok |-> TRUE, left |-> tk[i].left, right |-> tk[i + 2].right,
              order |-> 7,
              value |-> -(Atoi(tk[i].w) * UnitSeconds(tk[i + 1].w))]
  IN At(FirstIndex({i \in 1..Len(tk) : P(i)}))

\* the matches kept: from the leftmost on, each match that starts at most
\* 5 characters after the end of the one before it
RECURSIVE Cluster(_, _)
Cluster(ms, end) ==
  LET Keep(m) ==
        IF m.left <= end + 5 THEN {m} \cup Cluster(ms \ {m}, m.right) ELSE {}
  IN IF ms = {} THEN {}
     ELSE Keep(CHOOSE a \in ms : \A b \in ms : a.left <= b.left)

\* when.Parser.Parse(text, base): matched is FALSE when the library returns
\* a nil result
\* the Hour rule sets the hour and clears the minute
whenSetHour(t1, w1, h) ==
  GoDate(w1.year, w1.month, w1.day, h, 0, w1.second, t1.ms, t1.loc)

whenHour(t1, hourOk, h) == IF hourOk THEN whenSetHour(t1, Wall(t1), h) ELSE t1

\* the rules kept, applied in their order: the duration of the last of
\* CasualDate, Deadline and PastTime, then the hour
whenApply(base, kept) ==
  LET has(o) == \E m \in kept : m.order = o
      val(o) == (CHOOSE m \in kept : m.order = o).value
  IN IF ~(has(2) \/ (has(4) /\ val(4) >= 0) \/ has(6) \/ has(7))
     THEN [matched |-> FALSE, t |-> ZeroTime]
     ELSE [matched |-> TRUE,
           t |-> whenHour(AddDuration(base,
                                      IF has(7) THEN val(7)
                                      ELSE IF has(6) THEN val(6)
                                      ELSE IF has(2) THEN val(2) ELSE 0,
                                      0),
                          has(4) /\ val(4) >= 0, val(4))]

whenFound(base, found) ==
  IF found = {} THEN [matched |-> FALSE, t |-> ZeroTime]
  ELSE whenApply(base,
                 Cluster(found,
                         (CHOOSE a \in found : \A b \in found : a.left <= b.left).right))

whenRules(base, tk) ==
  whenFound(base, {m \in {MatchCasualDate(tk), MatchHour(tk), MatchDeadline(tk),
                          MatchPastTime(tk)} : m.ok})

WhenParse(text, base) == whenRules(base, Tokens(text))

\* the regular expression (?i)(.+?)\s+and\s+(.+?)(\s+ago)?$ of
\* parseCompoundDuration on a trimmed text without line breaks: group 1 is
\* the shortest head that white space, "and" and white space follow; group 2
\* is the rest, less a final white space and "ago" when the rest ends so
andWord(s, k) == ToLower(Sub(s, k, k + 2)) = "and" /\ IsSpace(Ch(s, k + 3))

AndAt(s, i) == IsSpace(Ch(s, i + 1)) /\ andWord(s, i + 1 + SpaceRun(s, i + 1))

compoundGroups(s, i, rest, ago, body) ==
  [ok |-> TRUE, part1 |-> Sub(s, 1, i),
   part2 |-> IF ago THEN body ELSE rest, hasAgo |-> ago]

\* body: the rest less a final white space and "ago"
compoundAgo(s, i, rest, body) ==
  compoundGroups(s, i, rest,
                 /\ ToLower(Sub(rest, Len(rest) - 2, Len(rest))) = "ago"
                 /\ IsSpace(Ch(rest, Len(rest) - 3))
                 /\ body # "",
                 body)

compoundSecond(s, i, rest) ==
  IF rest = ""
  THEN [ok |-> FALSE, part1 |-> "", part2 |-> "", hasAgo |-> FALSE]
  ELSE compoundAgo(s, i, rest, TrimRight(Sub(rest, 1, Len(rest) - 3)))

\* k: the position of "and"
compoundAfter(s, i, k) ==
  compoundSecond(s, i, Sub(s, k + 3 + SpaceRun(s, k + 3), Len(s)))

compoundFirst(s, i) ==
  IF i = 0
  THEN [ok |-> FALSE, part1 |-> "", part2 |-> "", hasAgo |-> FALSE]
  ELSE compoundAfter(s, i, i + 1 + SpaceRun(s, i + 1))

CompoundMatch(s) ==
  LET P(i) == AndAt(s, i) IN compoundFirst(s, FirstIndex({i \in 1..Len(s) : P(i)}))

\* compoundSum with the second distance left out of the sum
compoundSumFirst(refInTz, loc, r1, r2) ==
  IF ~r1.matched THEN ParseFail
  ELSE IF ~r2.matched THEN ParseFail
  ELSE ParseOk(In(AddDuration(refInTz, SubSeconds(r1.t, refInTz),
                              SubMillis(r1.t, refInTz)),
                  loc))

\* lines 175-187: both parts parsed, their distances from the reference added
compoundSum(refInTz, loc, r1, r2) ==
  IF ~r1.matched THEN ParseFail
  ELSE IF ~r2.matched THEN ParseFail
  ELSE ParseOk(In(AddDuration(refInTz,
                              SubSeconds(r1.t, refInTz) + SubSeconds(r2.t, refInTz),
                              SubMillis(r1.t, refInTz) + SubMillis(r2.t, refInTz)),
                  loc))

\* a part given to parseCompoundDuration again: a part that is a compound
\* expression itself is the sum of its own parts
nestedPart(text, n, refInTz, loc) ==
  IF ~n.ok THEN WhenParse(text, refInTz)
  ELSE [matched |-> compoundSum(refInTz, loc,
                                WhenParse(TrimSpace(n.part1) \o " ago", refInTz),
                                WhenParse(TrimSpace(n.part2) \o " ago", refInTz)).ok,
        t |-> compoundSum(refInTz, loc,
                          WhenParse(TrimSpace(n.part1) \o " ago", refInTz),
                          WhenParse(TrimSpace(n.part2) \o " ago", refInTz)).t]

\* compoundParts with the parts parsed by parseCompoundDuration in place of
\* the library
compoundPartsNested(m, ago, refInTz, loc) ==
  IF ~m.ok THEN ParseFail
  ELSE compoundSum(refInTz, loc,
                   nestedPart(TrimSpace(m.part1) \o ago,
                              CompoundMatch(TrimSpace(m.part1) \o ago), refInTz, loc),
                   nestedPart(TrimSpace(m.part2) \o ago,
                              CompoundMatch(TrimSpace(m.part2) \o ago), refInTz, loc))

\* lines 150-173: the parts, each with " ago" when the expression ends so
compoundParts(m, ago, refInTz, loc) ==
  IF ~m.ok THEN ParseFail
  ELSE compoundSum(refInTz, loc,
                   WhenParse(TrimSpace(m.part1) \o ago, refInTz),
                   WhenParse(TrimSpace(m.part2) \o ago, refInTz))

parseCompoundDuration(input, referenceTime, loc) ==
  LET Matched(m) ==
        compoundParts(m, IF m.hasAgo THEN " ago" ELSE "",
                      In(referenceTime, loc), loc)
  IN Matched(CompoundMatch(TrimSpace(input)))

\* lines 62-83: the whole input given to the library
whenWhole(loc, r) == IF ~r.matched THEN ParseFail ELSE ParseOk(In(r.t, loc))

\* lines 57-60: the compound expression first
whenCompound(input, referenceTime, loc, c) ==
  IF c.ok THEN c ELSE whenWhole(loc, WhenParse(input, In(referenceTime, loc)))

parseWithWhenLibrary(input, referenceTime, loc) ==
  whenCompound(input, referenceTime, loc,
               parseCompoundDuration(input, referenceTime, loc))

(***************************************************************************)
(* Layer 2 (parser.go): dateparse.ParseIn.  Of the formats the library     *)
(* reads, the model has the ISO 8601 family: date and time with a zone,    *)
(* date and time without one (T or a space between them, read in loc) and  *)
(* the date alone.  The text is not trimmed: a text that starts with white *)
(* space or a sign is no format of the library.                            *)
(***************************************************************************)
dateparseFirst(p1, p3, p5, p6) ==
  IF p1.ok THEN p1
  ELSE IF p3.ok THEN p3
  ELSE IF p5.ok THEN p5
  ELSE IF p6.ok THEN p6
  ELSE ParseFail

DateParseIn(input, loc) ==
  dateparseFirst(ParseInLocation(RFC3339, input, loc),
                 ParseInLocation(LayoutISO, input, loc),
                 ParseInLocation(LayoutFull, input, loc),
                 ParseInLocation(LayoutDate, input, loc))

(***************************************************************************)
(* The inputs of the model.                                                *)
(***************************************************************************)
\* the strings of at most n characters over the alphabet A
RECURSIVE StringsOver(_, _)
StringsOver(A, n) ==
  IF n = 0 THEN {""}
  ELSE LET shorter == StringsOver(A, n - 1)
       IN shorter \cup {s \o c : s \in {x \in shorter : Len(x) = n - 1}, c \in A}

\* every short text over characters of the duration grammars (a sign, two
\* digits, units of both grammars, white space and a letter that is no unit)
ShortAlphabet == {"-", "0", "1", "d", "w", "M", "m", "h", " ", "x"}

ShortInputs == StringsOver(ShortAlphabet, MaxLen)

\* "<n><unit>" and "-<n><unit>" for the units of the extended grammar
ExtendedUnits == {"d", "w", "M", "y"}

ExtendedInput(neg, n, u) == (IF neg THEN "-" ELSE "") \o Itoa(n) \o u

ExtendedInputs ==
  {ExtendedInput(neg, n, u) : neg \in BOOLEAN, n \in 0..MaxN, u \in ExtendedUnits}

GoDurationInputs == {"2h30m", "-5s", "1m", "0s", "-6h", "1h1ms", "0"}

\* the halves of the "X and Y" inputs; "xyz" is no phrase of the grammar
Halves == {"3 days", "2 hours", "30 minutes", "3 days ago", "xyz"}

CompoundInput(x, y, ago) == x \o " and " \o y \o (IF ago THEN " ago" ELSE "")

CompoundInputs == {CompoundInput(x, y, ago) : x \in Halves, y \in Halves, ago \in BOOLEAN}

NaturalInputs ==
  {"tomorrow at 3pm", "yesterday at 3pm", "3 days ago", "in 2 hours",
   "3 xyz and 2 abc ago", "3 DAYS AND 2 HOURS AGO",
   "3 days and 2 hours and 30 minutes ago"}

StandardInputs ==
  {"2025-08-12T15:00:00Z", "2025-08-12T15:00:00-05:00", "2025-07-19T08:45:40.501Z",
   "2025-08-12T15:00:05", "2025-08-12 15:00:00", "2025-08-12",
   " 2025-08-12T15:00:00Z"}

JunkInputs ==
  {"", "   \t\n  ", "14xyz", "5dd", "in 5d", "3 days", "not-a-date",
   "this is not a valid time expression at all", " x ", "-14d", " 2d ", "YYYY-MM-DD"}

FuzzyInputs ==
  ExtendedInputs \cup GoDurationInputs \cup CompoundInputs \cup NaturalInputs
    \cup StandardInputs \cup JunkInputs

\* the timestamps ParseTimestamp is called with: texts put together from a
\* date, a time, a fraction, a zone or a trailing token, and white space
\* around them
PoolDates == {"2025-07-19", "2025-03-09", "2025-11-02", "2024-02-29", "2025-02-30"}

PoolClocks == {"08:45:40", "02:30:00", "01:30:00", "23:59:59", "24:00:00"}

PoolZones == {"Z", "+09:00", "-05:00"}

PoolTokens == {"EST", "PST", "JST", "UTC", "Z", "x", "ABCD", "ABCDE", "+0500"}

\* the dates and times the texts with a trailing token are built from
SuffixDates == {"2025-07-19", "2025-11-02"}

SuffixClocks == {"08:45:40", "01:30:00"}

ZonedInput(d, c, z) == d \o "T" \o c \o z

LocalInput(d, sep, c) == d \o sep \o c

SuffixInput(d, c, k) == d \o " " \o c \o " " \o k

StrictInputs ==
  {ZonedInput(d, c, z) : d \in PoolDates, c \in PoolClocks, z \in PoolZones}
    \cup {LocalInput(d, sep, c) : d \in PoolDates, sep \in {"T", " "}, c \in PoolClocks}
    \cup {SuffixInput(d, c, k) : d \in SuffixDates, c \in SuffixClocks,
                                 k \in PoolTokens}
    \cup PoolDates
    \cup {"2025-07-19T08:45:40.501Z", "2025-07-19T08:45:40.501",
          "2025-07-19 08:45:40.5", " 2025-07-19T08:45:40Z ", "  2025-07-19  ",
          "2025-07-19   08:45:40  EST", "2025-07-19T08:45:40 EST",
          "Jan 15, 2024 2:30 PM", "", "   \t\n  ", " x ", "not-a-date", "YYYY-MM-DD",
          "2025-07-19 08:45:40 EST extra"}

Timezones == {"UTC", "America/New_York", "Asia/Tokyo", "", "Invalid/Timezone"}

\* reference instants: 2025-08-11 12:00 UTC, 2025-03-08 12:00 UTC (the day
\* before daylight time starts in New York), 2025-01-31 12:00:00.250 UTC and
\* 2024-02-29 23:30 UTC
References ==
  {GoDate(2025, 8, 11, 12, 0, 0, 0, "UTC"), GoDate(2025, 3, 8, 12, 0, 0, 0, "UTC"),
   GoDate(2025, 1, 31, 12, 0, 0, 250, "UTC"), GoDate(2024, 2, 29, 23, 30, 0, 0, "UTC")}

(***************************************************************************)
(* Time.Format for the layouts the program renders instants with, and      *)
(* fmt's %d and %02d.                                                      *)
(***************************************************************************)
\* fmt's %d of an integer
FmtInt(n) == IF n < 0 THEN "-" \o Itoa(-n) ELSE Itoa(n)

\* fmt's %02d (k = 2) and the zero-padded fields of a layout; the sign of
\* a negative number takes one place of the width
RECURSIVE Pad(_, _)
Pad(n, k) ==
  IF n < 0 THEN "-" \o Pad(-n, k - 1)
  ELSE IF Len(Itoa(n)) >= k THEN Itoa(n)
  ELSE Sub("0000", 1, k - Len(Itoa(n))) \o Itoa(n)

\* "2006-01-02", sep, "15:04:05" of a wall clock
formatStamp(w, sep) ==
  Pad(w.year, 4) \o "-" \o Pad(w.month, 2) \o "-" \o Pad(w.day, 2) \o sep
    \o Pad(w.hour, 2) \o ":" \o Pad(w.minute, 2) \o ":" \o Pad(w.second, 2)

\* "Z07:00" of an offset in seconds
formatZone(off) ==
  IF off = 0 THEN "Z"
  ELSE IF off < 0
  THEN "-" \o Pad((-off) \div 3600, 2) \o ":" \o Pad(((-off) % 3600) \div 60, 2)
  ELSE "+" \o Pad(off \div 3600, 2) \o ":" \o Pad((off % 3600) \div 60, 2)

\* Time.Format(time.RFC3339): whole seconds, the fraction is not rendered
FormatRFC3339(t) ==
  formatStamp(Wall(t), "T") \o formatZone(ZoneLookup(t.loc, t.unix).offset)

(***************************************************************************)
(* formatDuration (compat.go).  A float64 of seconds is a whole number of  *)
(* tenths of a second; int(x) truncates toward zero and % takes the sign   *)
(* of the dividend, as in Go.  The text humanize.Time gives is overwritten *)
(* in every branch of the switch and is left out.                          *)
(***************************************************************************)
\* a / b and a % b of Go, b > 0
truncDiv(a, b) == IF a >= 0 THEN a \div b ELSE -((-a) \div b)

truncRem(a, b) == a - b * truncDiv(a, b)

\* int(seconds / 86400)
days(seconds) == truncDiv(seconds, 864000)

\* hours without the remainder of the day taken first
hoursOfAll(seconds) == truncDiv(truncDiv(seconds, 10), 3600)

\* int((int(seconds) % 86400) / 3600)
hours(seconds) == truncDiv(truncRem(truncDiv(seconds, 10), 86400), 3600)

\* int((int(seconds) % 3600) / 60)
minutes(seconds) == truncDiv(truncRem(truncDiv(seconds, 10), 3600), 60)

\* int(seconds) % 60
secs(seconds) == truncRem(truncDiv(seconds, 10), 60)

plural(n) == IF n = 1 THEN "" ELSE "s"

\* strings.Join
RECURSIVE Join(_, _)
Join(parts, sep) ==
  IF Len(parts) = 0 THEN ""
  ELSE IF Len(parts) = 1 THEN parts[1]
  ELSE parts[1] \o sep \o Join(Tail(parts), sep)

\* if n > 0 { parts = append(parts, text) }
appendPositive(parts, n, text) == IF n > 0 THEN Append(parts, text) ELSE parts

\* appendSeconds without the test for no parts: seconds of zero are never
\* listed
appendSecondsPositive(parts, n, text) == IF n > 0 THEN Append(parts, text) ELSE parts

\* if secs > 0 || len(parts) == 0 { parts = append(parts, text) }
appendSeconds(parts, n, text) ==
  IF n > 0 \/ Len(parts) = 0 THEN Append(parts, text) ELSE parts

\* the parts of the compact style
compactParts(d, h, m, s) ==
  appendSeconds(
    appendPositive(
      appendPositive(appendPositive(<< >>, d, FmtInt(d) \o "d"), h, FmtInt(h) \o "h"),
      m, FmtInt(m) \o "m"),
    s, FmtInt(s) \o "s")

\* the parts of the full style
fullParts(d, h, m, s) ==
  appendSeconds(
    appendPositive(
      appendPositive(
        appendPositive(<< >>, d, FmtInt(d) \o " day" \o plural(d)),
        h, FmtInt(h) \o " hour" \o plural(h)),
      m, FmtInt(m) \o " minute" \o plural(m)),
    s, FmtInt(s) \o " second" \o plural(s))

\* minimalText with three fields whatever the duration
minimalTextFixed(d, h, m, s) ==
  FmtInt(d * 24 + h) \o ":" \o Pad(m, 2) \o ":" \o Pad(s, 2)

\* the minimal style
minimalText(d, h, m, s) ==
  IF d > 0
  THEN FmtInt(d) \o ":" \o Pad(h, 2) \o ":" \o Pad(m, 2) \o ":" \o Pad(s, 2)
  ELSE IF h > 0 THEN FmtInt(h) \o ":" \o Pad(m, 2) \o ":" \o Pad(s, 2)
  ELSE FmtInt(m) \o ":" \o Pad(s, 2)

\* the switch on the style: every style but "compact" and "minimal" takes
\* the default branch, the full style
styleText(style, d, h, m, s) ==
  IF style = "compact" THEN Join(compactParts(d, h, m, s), " ")
  ELSE IF style = "minimal" THEN minimalText(d, h, m, s)
  ELSE Join(fullParts(d, h, m, s), ", ")

\* signedText with the flag not read
unsignedText(isNegative, fuzzyText) == fuzzyText

signedText(isNegative, fuzzyText) ==
  IF isNegative THEN "-" \o fuzzyText ELSE fuzzyText

formatDuration(seconds, style, isNegative) ==
  signedText(isNegative,
             styleText(style, days(seconds), hours(seconds), minutes(seconds),
                       secs(seconds)))

\* the abbreviation of the zone in force at an offset ("MST" of a layout)
zoneName(l, off) ==
  IF l = "America/New_York" THEN (IF off = -14400 THEN "EDT" ELSE "EST")
  ELSE IF l = "Asia/Tokyo" THEN "JST"
  ELSE "UTC"

\* Time.Format("2006-01-02 15:04:05 MST")
FormatStampZone(t) ==
  formatStamp(Wall(t), " ") \o " " \o zoneName(t.loc, ZoneLookup(t.loc, t.unix).offset)

\* formatWithPreciseTimestamp: UTC for a timezone that does not load
formatWithPreciseTimestamp(fuzzyText, preciseTime, tz) ==
  fuzzyText \o " (" \o FormatStampZone(In(preciseTime, LoadLocation(tz).loc)) \o ")"

\* handleFormatDuration, after the style and the sign are settled:
\* time.Duration(seconds) is the seconds truncated to a whole number
formatDurationStyled(seconds, style, isNegative, now) ==
  formatWithPreciseTimestamp(
    formatDuration(seconds, style, isNegative),
    AddDuration(now, IF isNegative THEN -truncDiv(seconds, 10)
                     ELSE truncDiv(seconds, 10), 0),
    "UTC")

handleFormatDuration(seconds, style, now) ==
  formatDurationStyled(IF seconds < 0 THEN -seconds ELSE seconds,
                       IF style = "" THEN "full" ELSE style,
                       seconds < 0, now)

(***************************************************************************)
(* GetTimeContext and GetTimeDescription (compat.go).  The float64 of      *)
(* seconds GetTimeContext takes is a whole number of tenths of a second.   *)
(***************************************************************************)
\* GetTimeContext with the day of the month not compared: less than a day
\* ago is always "earlier today"
contextOfSeconds(seconds, sameDay) ==
  IF seconds < 0 THEN "in the future"
  ELSE IF seconds < 600 THEN "just now"
  ELSE IF seconds < 36000 THEN "earlier"
  ELSE IF seconds < 864000 THEN "earlier today"
  ELSE IF seconds < 1728000 THEN "yesterday"
  ELSE IF seconds < 6048000 THEN "this week"
  ELSE IF seconds < 25920000 THEN "this month"
  ELSE "a while ago"

\* the switch of GetTimeContext; sameDay is t.Day() == now.Day().  Where
\* seconds is not negative absSeconds is seconds.
contextSwitch(seconds, sameDay) ==
  IF seconds < 0 THEN "in the future"
  ELSE IF seconds < 600 THEN "just now"
  ELSE IF seconds < 36000 THEN "earlier"
  ELSE IF seconds < 864000 THEN (IF sameDay THEN "earlier today" ELSE "yesterday")
  ELSE IF seconds < 1728000 THEN "yesterday"
  ELSE IF seconds < 6048000 THEN "this week"
  ELSE IF seconds < 25920000 THEN "this month"
  ELSE "a while ago"

GetTimeContext(t, now, seconds) ==
  contextSwitch(seconds, Wall(t).day = Wall(now).day)

\* int(x / 24) of a duration of whole seconds and ms milliseconds, ms in
\* 0..999, x its hours: the days, truncated toward zero
truncDays(whole, ms) ==
  IF whole >= 0 THEN whole \div 86400
  ELSE IF ms = 0 THEN -((-whole) \div 86400)
  ELSE -((-whole - 1) \div 86400)

\* the days between the dates of t and now, each in its location
calendarDaysDiff(t, now) ==
  (t.unix + ZoneLookup(t.loc, t.unix).offset) \div 86400
    - (now.unix + ZoneLookup(now.loc, now.unix).offset) \div 86400

\* int(t.Sub(now).Hours() / 24)
daysDiff(t, now) ==
  truncDays((t.unix - now.unix) + ((t.ms - now.ms) \div 1000), (t.ms - now.ms) % 1000)

\* Time.Format("Monday")
FormatWeekday(t) ==
  << "Sunday", "Monday", "Tuesday", "Wednesday", "Thursday", "Friday", "Saturday"
  >>[WeekdayOfDays((t.unix + ZoneLookup(t.loc, t.unix).offset) \div 86400) + 1]

\* Time.Format("January 2, 2006") of a wall clock
formatLongDate(w) ==
  << "January", "February", "March", "April", "May", "June", "July", "August",
     "September", "October", "November", "December" >>[w.month]
    \o " " \o Itoa(w.day) \o ", " \o Pad(w.year, 4)

\* Time.Format("3:04 PM") of a wall clock
formatKitchen(w) ==
  Itoa(IF w.hour % 12 = 0 THEN 12 ELSE w.hour % 12) \o ":" \o Pad(w.minute, 2)
    \o (IF w.hour >= 12 THEN " PM" ELSE " AM")

\* the switch of GetTimeDescription
dayDesc(d, t) ==
  IF d = 0 THEN "today"
  ELSE IF d = 1 THEN "tomorrow"
  ELSE IF d = -1 THEN "yesterday"
  ELSE IF d \in 2..7 THEN "next " \o FormatWeekday(t)
  ELSE IF d \in -7..-2 THEN "last " \o FormatWeekday(t)
  ELSE formatLongDate(Wall(t))

GetTimeDescription(t, now, isDateOnly) ==
  IF isDateOnly THEN dayDesc(daysDiff(t, now), t)
  ELSE dayDesc(daysDiff(t, now), t) \o " at " \o formatKitchen(Wall(t))

(***************************************************************************)
(* The arguments GetTimeContext and GetTimeDescription are called with.    *)
(***************************************************************************)
\* seconds, in tenths, on both sides of every threshold
ContextSeconds ==
  {-36000, -1, 0, 599, 600, 35999, 36000, 863999, 864000, 1727999, 1728000,
   6047999, 6048000, 25919999, 25920000, 100000000}

\* the targets of GetTimeContext: a time before the clock
ContextBefore == {0, 7200, 50400, 82800, 2678400}

\* the targets of GetTimeDescription: a time after or before the clock, in
\* seconds, around every change of the day difference
DescriptionAfter ==
  {0, 3600, 86399, 86400, 129600, 172799, 172800, 604800, 691199, 691200,
   -3600, -86399, -86400, -172799, -172800, -604800, -691199, -691200}

DescriptionMillis == {0, -250, 250}

(***************************************************************************)
(* The handlers of add_time and time_difference (main.go) and              *)
(* TimeDifference (compat.go).  A handler's result is the map it prints,   *)
(* or the error it returns.  The calls are made without                    *)
(* autodetect_and_use_user_timezone, so that no timezone of the system is  *)
(* read; time.Now is ref at each of its calls.                             *)
(***************************************************************************)
\* what a function or handler that returns a text returns
TextResult(text) == [ok |-> TRUE, text |-> text, err |-> ""]

TextError(msg) == [ok |-> FALSE, text |-> "", err |-> msg]

\* const defaultTimezone; a timezone argument left empty is this one, which
\* time.LoadLocation loads as it loads the empty name
defaultTimezone == "UTC"

handlerTimezone(tz) == IF tz = "" THEN defaultTimezone ELSE tz

MapResult(m) == [ok |-> TRUE, map |-> m, err |-> ""]

\* the switch of handleAddTime with a default branch that adds seconds
addTimeUnitDefault(unit) ==
  CASE unit = "minutes" -> 60
    [] unit = "hours" -> 3600
    [] unit = "days" -> 86400
    [] unit = "weeks" -> 604800
    [] OTHER -> 1

\* the switch of handleAddTime: the seconds of a unit, 0 for the default
\* branch
addTimeUnit(unit) ==
  CASE unit = "seconds" -> 1
    [] unit = "minutes" -> 60
    [] unit = "hours" -> 3600
    [] unit = "days" -> 86400
    [] unit = "weeks" -> 604800
    [] OTHER -> 0

\* the map of handleAddTime; now is time.Now().In(loc)
addTimeMap(resultTime, now, isDateOnly) ==
  [result |-> IF isDateOnly THEN Sub(formatStamp(Wall(resultTime), " "), 1, 10)
              ELSE formatStamp(Wall(resultTime), " "),
   iso |-> FormatRFC3339(resultTime),
   description |-> GetTimeDescription(resultTime, now, isDateOnly)]

\* handleAddTime from the switch on: millis is the duration, a number of
\* tenths of the unit, in milliseconds.  Time.In panics on the nil
\* location that a timezone that does not load leaves.
addTimeFrom(t, timestamp, unit, millis, tz, now) ==
  IF addTimeUnit(unit) = 0 THEN TextError("invalid unit: " \o unit)
  ELSE IF ~LoadLocation(tz).ok
  THEN TextError("panic: time: missing Location in call to Time.In")
  ELSE MapResult(addTimeMap(AddDuration(t, truncDiv(millis, 1000),
                                        truncRem(millis, 1000)),
                            In(now, LoadLocation(tz).loc), Len(timestamp) = 10))

\* handleAddTime after ParseFuzzyTimestamp has returned parsed
handleAddTime(parsed, timestamp, duration, unit, tz, now) ==
  IF ~parsed.ok THEN TextError("invalid timestamp: " \o parsed.err)
  ELSE addTimeFrom(parsed.t, timestamp, unit, duration * 100 * addTimeUnit(unit),
                   tz, now)

\* formatDurationWithHumanize in the style "full", the one TimeDifference
\* asks for: millis is targetTime.Sub(referenceTime)
formatDurationWithHumanize(millis, targetTime, tz) ==
  formatWithPreciseTimestamp(
    formatDuration((IF millis < 0 THEN -millis ELSE millis) \div 100, "full",
                   millis < 0),
    targetTime, tz)

\* the DurationResult of TimeDifference for two timestamps that parse;
\* Duration is in milliseconds
durationResult(t1, t2, tz) ==
  [Duration |-> (t2.unix - t1.unix) * 1000 + (t2.ms - t1.ms),
   PreciseDescription |->
     formatDurationWithHumanize((t2.unix - t1.unix) * 1000 + (t2.ms - t1.ms), t2, tz)]

differenceOf(r1, r2, tz) ==
  IF ~r1.ok THEN TextError("failed to parse timestamp1: " \o r1.err)
  ELSE IF ~r2.ok THEN TextError("failed to parse timestamp2: " \o r2.err)
  ELSE MapResult(durationResult(r1.t, r2.t, tz))

TimeDifference(timestamp1, timestamp2, tz) ==
  differenceOf(ParseTimestamp(timestamp1, tz), ParseTimestamp(timestamp2, tz), tz)

\* the switch of handleTimeDifference: the divisor of a unit, 0 for the
\* default branch
differenceDivisor(unit) ==
  CASE unit = "seconds" -> 1
    [] unit = "minutes" -> 60
    [] unit = "hours" -> 3600
    [] unit = "days" -> 86400
    [] OTHER -> 0

\* handleTimeDifference after TimeDifference has returned d; requested_unit
\* is the quotient of its two fields
differenceIn(d, unit) ==
  IF ~d.ok THEN d
  ELSE IF unit = "auto"
  THEN MapResult([seconds |-> d.map.Duration, formatted |-> d.map.PreciseDescription,
                  is_negative |-> d.map.Duration < 0])
  ELSE IF differenceDivisor(unit) = 0 THEN TextError("invalid unit: " \o unit)
  ELSE MapResult([seconds |-> d.map.Duration, formatted |-> d.map.PreciseDescription,
                  is_negative |-> d.map.Duration < 0,
                  requested_unit |-> [seconds |-> d.map.Duration,
                                      divisor |-> differenceDivisor(unit)]])

handleTimeDifference(timestamp1, timestamp2, unit, tz) ==
  differenceIn(TimeDifference(timestamp1, timestamp2, handlerTimezone(tz)),
               IF unit = "" THEN "auto" ELSE unit)

(***************************************************************************)
(* TimeSince (compat.go) and the handler of time_since (main.go).  now is  *)
(* what time.Now() returns when TimeSince reads it.                        *)
(***************************************************************************)
\* the DurationResult of TimeSince for a timestamp that parses to t: now is
\* time.Now().In(loc); Duration is in milliseconds
sinceResult(t, now, tz) ==
  [Duration |-> (now.unix - t.unix) * 1000 + (now.ms - t.ms),
   PreciseDescription |->
     formatDurationWithHumanize((now.unix - t.unix) * 1000 + (now.ms - t.ms), now, tz),
   StartTime |-> t,
   EndTime |-> now]

\* TimeSince after ParseTimestamp has returned r.  The second LoadLocation
\* fails only where ParseTimestamp has failed before it.
sinceOf(r, l, now, tz) ==
  IF ~r.ok THEN TextError("failed to parse timestamp: " \o r.err)
  ELSE IF ~l.ok THEN TextError(ErrInvalidTimezone \o tz)
  ELSE MapResult(sinceResult(r.t, In(now, l.loc), tz))

\* options.ReferenceTime, the parameter reference, is not read
TimeSince(timestamp, tz, reference, now) ==
  sinceOf(ParseTimestamp(timestamp, tz), LoadLocation(tz), now, tz)

\* handleTimeSince after TimeSince has returned d; seconds is in
\* milliseconds, and GetTimeContext compares it in tenths of a second
sinceIn(d, tz) ==
  IF ~d.ok THEN d
  ELSE MapResult([seconds |-> d.map.Duration,
                  formatted |-> d.map.PreciseDescription,
                  context |-> GetTimeContext(d.map.StartTime, d.map.EndTime,
                                             d.map.Duration \div 100),
                  timezone |-> tz])

\* handleTimeSince: ReferenceTime is time.Now(), and so is now
handleTimeSince(timestamp, tz, now) ==
  sinceIn(TimeSince(timestamp, handlerTimezone(tz), now, now), handlerTimezone(tz))

(***************************************************************************)
(* The handler of list_timezones (main.go).  GetPopularTimezoneIDs is the  *)
(* list of compat.go; the list of GetAllTimezoneIDs is generated code:     *)
(* here it is the popular identifiers and, after them, AllCount            *)
(* identifiers in five regions.  Every identifier loads, so that every     *)
(* entry of a page is filled in; an entry is given by its identifier.      *)
(***************************************************************************)
popularIds ==
  << "UTC", "America/New_York", "America/Chicago", "America/Denver",
     "America/Los_Angeles", "America/Toronto", "America/Mexico_City",
     "America/Sao_Paulo", "America/Buenos_Aires", "Europe/London", "Europe/Paris",
     "Europe/Berlin", "Europe/Rome", "Europe/Amsterdam", "Europe/Zurich",
     "Europe/Stockholm", "Europe/Moscow", "Asia/Tokyo", "Asia/Shanghai",
     "Asia/Hong_Kong", "Asia/Singapore", "Asia/Kolkata", "Asia/Dubai",
     "Australia/Sydney", "Pacific/Auckland" >>

\* the identifiers of the generated list that are not popular ones
AllCount == 190

Regions == << "Africa", "America", "Asia", "Europe", "Pacific" >>

GetAllTimezoneIDs ==
  popularIds \o [i \in 1..AllCount |-> Regions[(i % 5) + 1] \o "/Z" \o Itoa(i)]

\* limit == 0 && args.Filter == "" && page == 0
usePopularDefault(limit, filter, page) == limit = 0 /\ filter = "" /\ page = 0

\* limitOf without the maximum of 100
limitUncapped(limit, popular) ==
  IF limit = 0 THEN (IF popular THEN 25 ELSE 100) ELSE limit

\* the limit after the defaults and the maximum
limitOf(limit, popular) ==
  IF limit = 0 THEN (IF popular THEN 25 ELSE 100)
  ELSE IF limit > 100 THEN 100
  ELSE limit

pageOf(page) == IF page = 0 THEN 1 ELSE page

sourceTimezones(popular) == IF popular THEN popularIds ELSE GetAllTimezoneIDs

\* the loop over sourceTimezones; filter is strings.ToLower(args.Filter)
filteredTimezones(source, filter) ==
  SelectSeq(source, LAMBDA tz : filter = "" \/ Contains(ToLower(tz), filter))

\* endIndex after the test against totalCount
endIndexOf(startIndex, limit, totalCount) ==
  IF startIndex + limit > totalCount THEN totalCount ELSE startIndex + limit

\* the page, or the panic of a slice expression whose bounds are not
\* 0 <= startIndex <= endIndex <= cap
slice(list, startIndex, endIndex) ==
  IF startIndex >= Len(list) THEN [ok |-> TRUE, page |-> << >>]
  ELSE IF startIndex < 0 \/ endIndex < startIndex THEN [ok |-> FALSE, page |-> << >>]
  ELSE [ok |-> TRUE, page |-> SubSeq(list, startIndex + 1, endIndex)]

\* the result map; totalPages is the quotient of Go, truncated
listResult(limit, page, filter, popular, totalCount, returned) ==
  MapResult([total_available |-> Len(GetAllTimezoneIDs),
             total_filtered |-> totalCount,
             returned_count |-> Len(returned),
             page |-> page,
             limit |-> limit,
             total_pages |-> truncDiv(totalCount + limit - 1, limit),
             has_next_page |-> page < truncDiv(totalCount + limit - 1, limit),
             has_prev_page |-> page > 1,
             filter |-> filter,
             using_popular |-> popular,
             timezones |-> returned])

listPage(limit, page, filter, popular, filtered, cut) ==
  IF ~cut.ok THEN TextError("panic: runtime error: slice bounds out of range")
  ELSE listResult(limit, page, filter, popular, Len(filtered), cut.page)

listFiltered(limit, page, filter, popular, filtered) ==
  listPage(limit, page, filter, popular, filtered,
           slice(filtered, (page - 1) * limit,
                 endIndexOf((page - 1) * limit, limit, Len(filtered))))

handleListTimezones(limit, filter, page) ==
  listFiltered(limitOf(limit, usePopularDefault(limit, filter, page)), pageOf(page),
               filter, usePopularDefault(limit, filter, page),
               filteredTimezones(sourceTimezones(usePopularDefault(limit, filter, page)),
                                 ToLower(filter)))

(***************************************************************************)
(* The handler of parse_timestamp (main.go).                               *)
(***************************************************************************)
\* parseTz with the source timezone not read: the target, whatever the
\* source
parseTzTarget(source, target) == handlerTimezone(target)

\* the timezone the timestamp is parsed in: source_timezone, or the target
\* when there is none
parseTz(source, target) == IF source = "" THEN handlerTimezone(target) ELSE source

\* "MST" of a layout: the abbreviation of the zone, and the offset as
\* -0700 for the zone of a parsed text, which has no abbreviation
formatZoneAbbr(t) ==
  IF t.loc \in Locations THEN zoneName(t.loc, ZoneLookup(t.loc, t.unix).offset)
  ELSE IF ZoneLookup(t.loc, t.unix).offset < 0
  THEN "-" \o Pad((-ZoneLookup(t.loc, t.unix).offset) \div 3600, 2)
           \o Pad(((-ZoneLookup(t.loc, t.unix).offset) % 3600) \div 60, 2)
  ELSE "+" \o Pad(ZoneLookup(t.loc, t.unix).offset \div 3600, 2)
           \o Pad((ZoneLookup(t.loc, t.unix).offset % 3600) \div 60, 2)

\* the result map of handleParseTimestamp for the time t
parseTimestampMap(t, source, target) ==
  [iso |-> FormatRFC3339(t),
   unix |-> FmtInt(t.unix),
   human |-> formatLongDate(Wall(t)) \o " at " \o formatKitchen(Wall(t)) \o " "
               \o formatZoneAbbr(t),
   timezone |-> handlerTimezone(target),
   day_of_week |-> FormatWeekday(t),
   date |-> Sub(formatStamp(Wall(t), " "), 1, 10),
   time |-> Sub(formatStamp(Wall(t), " "), 12, 19),
   source_timezone |-> parseTz(source, target)]

\* the conversion to the target timezone, made when a source timezone is
\* given that is not the target
parseTimestampIn(t, source, target, l) ==
  IF source # "" /\ source # handlerTimezone(target)
  THEN IF ~l.ok
       THEN TextError("unknown target timezone '" \o handlerTimezone(target) \o "': "
                        \o "unknown time zone " \o handlerTimezone(target))
       ELSE MapResult(parseTimestampMap(In(t, l.loc), source, target))
  ELSE MapResult(parseTimestampMap(t, source, target))

\* handleParseTimestamp after ParseFuzzyTimestamp has returned parsed
handleParseTimestamp(parsed, source, target) ==
  IF ~parsed.ok THEN TextError("invalid timestamp: " \o parsed.err)
  ELSE parseTimestampIn(parsed.t, source, target,
                        LoadLocation(handlerTimezone(target)))

(***************************************************************************)
(* The handler of timestamp_context (main.go).                             *)
(***************************************************************************)
\* t.Weekday(): 0 is Sunday, 6 is Saturday
Weekday(t) == WeekdayOfDays((t.unix + ZoneLookup(t.loc, t.unix).offset) \div 86400)

timeOfDay(hour) ==
  IF hour >= 5 /\ hour < 9 THEN "early_morning"
  ELSE IF hour >= 9 /\ hour < 12 THEN "morning"
  ELSE IF hour >= 12 /\ hour < 17 THEN "afternoon"
  ELSE IF hour >= 17 /\ hour < 21 THEN "evening"
  ELSE "late_night"

isWeekend(weekday) == weekday = 6 \/ weekday = 0

isBusinessHours(weekend, hour) == ~weekend /\ hour >= 9 /\ hour < 17

\* typicalActivity with the hours of work tested in place of
\* isBusinessHours
typicalActivityByHour(hour, business) ==
  IF hour >= 6 /\ hour < 9 THEN "commute_time"
  ELSE IF hour >= 12 /\ hour < 13 THEN "lunch_time"
  ELSE IF hour >= 17 /\ hour < 19 THEN "commute_time"
  ELSE IF hour >= 19 /\ hour < 21 THEN "dinner_time"
  ELSE IF hour >= 22 \/ hour < 6 THEN "sleeping_time"
  ELSE IF hour >= 9 /\ hour < 17 THEN "work_time"
  ELSE "leisure_time"

typicalActivity(hour, business) ==
  IF hour >= 6 /\ hour < 9 THEN "commute_time"
  ELSE IF hour >= 12 /\ hour < 13 THEN "lunch_time"
  ELSE IF hour >= 17 /\ hour < 19 THEN "commute_time"
  ELSE IF hour >= 19 /\ hour < 21 THEN "dinner_time"
  ELSE IF hour >= 22 \/ hour < 6 THEN "sleeping_time"
  ELSE IF business THEN "work_time"
  ELSE "leisure_time"

\* what relativeDay points to, "nil" for the nil pointer
relativeDay(d) ==
  CASE d = 0 -> "today" [] d = -1 -> "yesterday" [] d = 1 -> "tomorrow"
    [] OTHER -> "nil"

\* the result map for the hour and the weekday of t
contextMap(t, hour, weekend, d) ==
  [time_of_day |-> timeOfDay(hour),
   day_of_week |-> FormatWeekday(t),
   is_weekend |-> weekend,
   is_business_hours |-> isBusinessHours(weekend, hour),
   hour_24 |-> hour,
   typical_activity |-> typicalActivity(hour, isBusinessHours(weekend, hour)),
   relative_day |-> relativeDay(d)]

\* handleTimestampContext after ParseFuzzyTimestamp has returned parsed.
\* Time.In panics on the nil location that a timezone that does not load
\* leaves.
handleTimestampContext(parsed, tz, now) ==
  IF ~parsed.ok THEN TextError("invalid timestamp: " \o parsed.err)
  ELSE IF ~LoadLocation(tz).ok
  THEN TextError("panic: time: missing Location in call to Time.In")
  ELSE MapResult(contextMap(parsed.t, Wall(parsed.t).hour,
                            isWeekend(Weekday(parsed.t)),
                            daysDiff(parsed.t, In(now, LoadLocation(tz).loc))))

(***************************************************************************)
(* The arguments the handlers are called with.                             *)
(***************************************************************************)
Units ==
  {"seconds", "minutes", "hours", "days", "weeks", "", "auto", "months", "Days",
   "fortnight"}

\* the duration of add_time, in tenths
AddTimeDurations == {10, -15}

AddTimeInputs ==
  {"2025-07-19", "2025-07-19 08:45:40", "2025-03-08T23:30:00-05:00", "3 days ago",
   "-14d", "not-a-date", ""}

DifferenceInputs ==
  {"2025-07-19 08:45:40", "2025-07-19", "2025-07-19T08:45:40.501Z",
   "2025-07-20T01:00:00+09:00", "-14d", ""}

\* the wall clock of a call that is given a reference besides: 2025-08-11
\* 12:00 UTC and 2025-08-12 09:30:00.500 UTC
Clocks ==
  {GoDate(2025, 8, 11, 12, 0, 0, 0, "UTC"), GoDate(2025, 8, 12, 9, 30, 0, 500, "UTC")}

\* the references TimeSince is given: the clock's first value and the
\* reference of TestTimeSinceCalculation, 2025-08-16 20:00 UTC
SinceReferences ==
  {GoDate(2025, 8, 11, 12, 0, 0, 0, "UTC"), GoDate(2025, 8, 16, 20, 0, 0, 0, "UTC")}

\* the arguments of list_timezones
ListLimits == {0, 1, 10, 25, 100, 101, 150, -1, -5}

ListPages == {0, 1, 2, 3, 4, 22, 999, -1, -200}

ListFilters == {"", "America", "london", "NonExistentTimezone"}

\* the timestamps of parse_timestamp: the one of TestHandleParseTimestamp,
\* wall clocks of summer and of the hour daylight time skips, a date, a
\* timestamp with a zone, a phrase, a duration, and a text of no layer
ConvertInputs ==
  {"2024-01-15 14:30:00", "2025-07-19T08:45:40", "2025-03-09 02:30:00", "2025-08-12",
   "2025-08-12T15:00:00-05:00", "tomorrow at 3pm", "2h30m", "not-a-date"}

\* the timestamps of timestamp_context: every hour of the seven days from
\* Sunday 2025-08-10, and a text of no layer
ContextDates ==
  {"2025-08-10", "2025-08-11", "2025-08-12", "2025-08-13", "2025-08-14", "2025-08-15",
   "2025-08-16"}

ContextInputs ==
  {LocalInput(d, " ", Pad(h, 2) \o ":30:00") : d \in ContextDates, h \in 0..23}
    \cup {"not-a-date"}

ContextTimezones == {"", "America/New_York", "Invalid/Timezone"}

SinceInputs ==
  {"2025-08-11 07:15:00", "2025-08-12", "2025-08-10T23:30:00-04:00",
   "2025-08-11T12:00:00.250Z", "2025-08-01T00:00:00Z", "3 days ago", "-14d",
   "not-a-date", ""}

(***************************************************************************)
(* The arguments FormatDuration and the format_duration tool are called    *)
(* with: seconds in tenths of a second.                                    *)
(***************************************************************************)
DurationInputs ==
  {d * 864000 + h * 36000 + m * 600 + s * 10 + f :
     d \in {0, 1, 2, 11}, h \in {0, 1, 23}, m \in {0, 1, 59}, s \in {0, 1, 59},
     f \in {0, 9}}
    \cup {1250, 36650}

NegativeInputs == {-50, -900615}

HandlerSeconds == {0, 10, 1250, 36650, 900610, 900615, -50, -36650, -900615}

Styles == {"full", "compact", "minimal", "", "verbose", "FULL"}

\* the clock of a call that does not read it
ClockStart == GoDate(2025, 8, 11, 12, 0, 0, 0, "UTC")

(***************************************************************************)
(* The state: one call of a function of the package or of a handler of the *)
(* server.  input, timezone, fuzzy and ref are the arguments of the        *)
(* parsers (ParseOptions), ref being the clock (time.Now) for a handler;   *)
(* args holds the arguments the other functions take; op names the         *)
(* function called; pc is the position in it; loc is ParseFuzzyTimestamp's *)
(* local loc; attempted is the layers tried so far, each with its outcome; *)
(* result is the value returned.  clock is what time.Now() returns while   *)
(* the call runs; earlier is the calls the process has returned from       *)
(* before this one, each with its arguments and its result; waiting is the *)
(* calls of other goroutines that have started and are not running now,    *)
(* each with its arguments, its position and its locals.                   *)
(***************************************************************************)
VARIABLES input, timezone, fuzzy, ref, args, op, pc, loc, attempted, result,
          clock, earlier, waiting

vars ==
  << input, timezone, fuzzy, ref, args, op, pc, loc, attempted, result, clock,
     earlier, waiting >>

(***************************************************************************)
(* The calls.                                                              *)
(***************************************************************************)
NoResult == [ok |-> FALSE, t |-> ZeroTime, by |-> "none", err |-> ""]

\* a call that has no arguments besides input, timezone, fuzzy and ref
NoArgs == [none |-> TRUE]

\* the arguments of a call of a parser
ParserCall ==
  /\ op \in {"ParseFuzzyTimestamp", "ParseTimestamp", "parseDurationRelative"}
  /\ CASE op = "ParseFuzzyTimestamp" ->
            input \in FuzzyInputs /\ timezone \in Timezones /\ fuzzy \in BOOLEAN
       [] op = "ParseTimestamp" ->
            input \in StrictInputs /\ timezone \in Timezones /\ fuzzy = FALSE
       [] op = "parseDurationRelative" ->
            /\ input \in ShortInputs \cup ExtendedInputs \cup GoDurationInputs
                          \cup JunkInputs
            /\ timezone = "UTC" /\ fuzzy = TRUE
  /\ ref \in References
  /\ args = NoArgs

\* the arguments of a call of FormatDuration or of the format_duration tool
FormatCall ==
  /\ op \in {"FormatDuration", "handleFormatDuration"}
  /\ input = "" /\ timezone = "UTC" /\ fuzzy = FALSE
  /\ CASE op = "FormatDuration" ->
            /\ ref = ClockStart
            /\ args \in [seconds : DurationInputs \cup NegativeInputs,
                         style : Styles, isNegative : BOOLEAN]
       [] op = "handleFormatDuration" ->
            /\ ref \in References
            /\ args \in [seconds : HandlerSeconds, style : Styles]

\* the arguments of a call of GetTimeContext or GetTimeDescription: now is
\* ref, and t a time around it, in any location
ContextCall ==
  /\ op \in {"GetTimeContext", "GetTimeDescription"}
  /\ input = "" /\ timezone = "UTC" /\ fuzzy = FALSE
  /\ ref \in References
  /\ CASE op = "GetTimeContext" ->
            args \in {[t |-> In(AddDuration(ref, -b, 0), l), seconds |-> s] :
                        b \in ContextBefore, l \in Locations, s \in ContextSeconds}
       [] op = "GetTimeDescription" ->
            args \in {[t |-> In(AddDuration(ref, a, m), l), isDateOnly |-> b] :
                        a \in DescriptionAfter, m \in DescriptionMillis,
                        l \in Locations, b \in BOOLEAN}

\* the arguments of a call of the add_time or the time_difference tool: the
\* timestamp, or the first of two, is input
HandlerCall ==
  /\ op \in {"handleAddTime", "handleTimeDifference"}
  /\ timezone \in Timezones /\ fuzzy \in BOOLEAN
  /\ CASE op = "handleAddTime" ->
            /\ input \in AddTimeInputs
            /\ ref \in {r \in References : r.ms = 0 /\ Wall(r).hour = 12}
            /\ args \in [unit : Units, duration : AddTimeDurations]
       [] op = "handleTimeDifference" ->
            /\ input \in DifferenceInputs
            /\ ref = ClockStart
            /\ args \in [timestamp2 : DifferenceInputs, unit : Units]

\* the arguments of a call of TimeSince, which is given a reference and
\* runs at some time of the wall clock, or of the time_since tool, whose
\* handler takes the reference from the clock
SinceCall ==
  /\ op \in {"TimeSince", "handleTimeSince"}
  /\ input \in SinceInputs /\ timezone \in Timezones /\ fuzzy \in BOOLEAN
  /\ clock \in Clocks
  /\ ref \in (IF op = "TimeSince" THEN SinceReferences ELSE {clock})
  /\ args = NoArgs

\* the arguments of a call of the parse_timestamp tool; timezone is the
\* Timezone of the options the handler gives ParseFuzzyTimestamp
ConvertCall ==
  /\ op = "handleParseTimestamp"
  /\ input \in ConvertInputs /\ fuzzy \in BOOLEAN
  /\ args \in [source : Timezones, target : Timezones]
  /\ timezone = parseTz(args.source, args.target)
  /\ ref = ClockStart /\ clock = ref

\* the arguments of a call of the timestamp_context tool
TimestampContextCall ==
  /\ op = "handleTimestampContext"
  /\ input \in ContextInputs /\ timezone \in ContextTimezones /\ fuzzy \in BOOLEAN
  /\ ref = ClockStart /\ clock = ref
  /\ args = NoArgs

\* the arguments of a call of the list_timezones tool
ListCall ==
  /\ op = "handleListTimezones"
  /\ input = "" /\ timezone = "UTC" /\ fuzzy = FALSE
  /\ ref = ClockStart /\ clock = ref
  /\ args \in [limit : ListLimits, page : ListPages, filter : ListFilters]

\* the locals of a call that has just been made
Called ==
  /\ pc = "start"
  /\ loc = "UTC"
  /\ attempted = << >>
  /\ result = NoResult

\* one call, the first of the process.  The wall clock is the reference of
\* a call whose caller passes time.Now() for it.
Init ==
  /\ \/ (ParserCall \/ FormatCall \/ ContextCall \/ HandlerCall) /\ clock = ref
     \/ SinceCall
     \/ ListCall
     \/ ConvertCall
     \/ TimestampContextCall
  /\ earlier = << >>
  /\ waiting = << >>
  /\ Called

\* the arguments of a call and what the call finds, the wall clock, the
\* calls made before it and the calls of the other goroutines: no step of a
\* call changes any of them
Arguments == << input, timezone, fuzzy, ref, args, op, clock, earlier, waiting >>

\* ParseTimestamp called on its own
CallParseTimestamp ==
  /\ op = "ParseTimestamp" /\ pc = "start"
  /\ result' = ParseTimestamp(input, timezone)
  /\ pc' = "done"
  /\ UNCHANGED << Arguments, loc, attempted >>

\* parseDurationRelative called on its own, the reference time in UTC
CallParseDurationRelative ==
  LET Returned(r) ==
        result' = IF r.ok THEN Success(r.t, "duration")
                  ELSE Failure("not a valid duration format: " \o input)
  IN /\ op = "parseDurationRelative" /\ pc = "start"
     /\ Returned(parseDurationRelative(input, ref))
     /\ pc' = "done"
     /\ UNCHANGED << Arguments, loc, attempted >>

\* FormatDuration, which is formatDuration under its exported name
CallFormatDuration ==
  /\ op = "FormatDuration" /\ pc = "start"
  /\ result' = TextResult(formatDuration(args.seconds, args.style, args.isNegative))
  /\ pc' = "done"
  /\ UNCHANGED << Arguments, loc, attempted >>

\* handleFormatDuration: the style "full" for none, the sign taken off the
\* seconds, FormatDuration, and the target time after it in parentheses
CallHandleFormatDuration ==
  /\ op = "handleFormatDuration" /\ pc = "start"
  /\ result' = TextResult(handleFormatDuration(args.seconds, args.style, ref))
  /\ pc' = "done"
  /\ UNCHANGED << Arguments, loc, attempted >>

CallGetTimeContext ==
  /\ op = "GetTimeContext" /\ pc = "start"
  /\ result' = TextResult(GetTimeContext(args.t, ref, args.seconds))
  /\ pc' = "done"
  /\ UNCHANGED << Arguments, loc, attempted >>

CallGetTimeDescription ==
  /\ op = "GetTimeDescription" /\ pc = "start"
  /\ result' = TextResult(GetTimeDescription(args.t, ref, args.isDateOnly))
  /\ pc' = "done"
  /\ UNCHANGED << Arguments, loc, attempted >>

\* TimeSince with the options Timezone and ReferenceTime
CallTimeSince ==
  /\ op = "TimeSince" /\ pc = "start"
  /\ result' = TimeSince(input, timezone, ref, clock)
  /\ pc' = "done"
  /\ UNCHANGED << Arguments, loc, attempted >>

\* handleTimeSince
CallHandleTimeSince ==
  /\ op = "handleTimeSince" /\ pc = "start"
  /\ result' = handleTimeSince(input, timezone, clock)
  /\ pc' = "done"
  /\ UNCHANGED << Arguments, loc, attempted >>

\* handleListTimezones
CallHandleListTimezones ==
  /\ op = "handleListTimezones" /\ pc = "start"
  /\ result' = handleListTimezones(args.limit, args.filter, args.page)
  /\ pc' = "done"
  /\ UNCHANGED << Arguments, loc, attempted >>

\* handleTimeDifference
CallHandleTimeDifference ==
  /\ op = "handleTimeDifference" /\ pc = "start"
  /\ result' = handleTimeDifference(input, args.timestamp2, args.unit, timezone)
  /\ pc' = "done"
  /\ UNCHANGED << Arguments, loc, attempted >>

\* handleAddTime once its call of ParseFuzzyTimestamp has returned; the
\* call itself is the steps of ParseFuzzyTimestamp below
ReturnAddTime ==
  /\ op = "handleAddTime" /\ pc = "done"
  /\ result' = handleAddTime(result, input, args.duration, args.unit,
                             handlerTimezone(timezone), ref)
  /\ pc' = "returned"
  /\ UNCHANGED << Arguments, loc, attempted >>

\* handleTimestampContext once its call of ParseFuzzyTimestamp has returned
ReturnTimestampContext ==
  /\ op = "handleTimestampContext" /\ pc = "done"
  /\ result' = handleTimestampContext(result, handlerTimezone(timezone), clock)
  /\ pc' = "returned"
  /\ UNCHANGED << Arguments, loc, attempted >>

\* handleParseTimestamp once its call of ParseFuzzyTimestamp has returned
ReturnParseTimestamp ==
  /\ op = "handleParseTimestamp" /\ pc = "done"
  /\ result' = handleParseTimestamp(result, args.source, args.target)
  /\ pc' = "returned"
  /\ UNCHANGED << Arguments, loc, attempted >>

\* ParseFuzzyTimestamp, lines 23-26: the location, UTC when it does not load
LoadTimezone ==
  /\ op \in {"ParseFuzzyTimestamp", "handleAddTime", "handleParseTimestamp",
             "handleTimestampContext"}
  /\ pc = "start"
  /\ loc' = LoadLocation(timezone).loc
  /\ pc' = "layer1"
  /\ UNCHANGED << Arguments, attempted, result >>

\* refInTz taken from the wall clock, time.Now(), and not from the options
nowInTz == In(clock, loc)

refInTz == In(ref, loc)

\* LayerRan with the return on success left out: the chain goes on to the
\* next layer whatever the outcome, and a later layer overwrites the result
LayerRanOn(layer, r, next) ==
  /\ attempted' = Append(attempted, [layer |-> layer, ok |-> r.ok])
  /\ result' = IF r.ok THEN Success(r.t, layer) ELSE result
  /\ pc' = next
  /\ UNCHANGED << Arguments, loc >>

\* one layer of the chain has run: its outcome is returned when it
\* succeeded, and the call goes on to `next' when it failed
LayerRan(layer, r, next) ==
  /\ attempted' = Append(attempted, [layer |-> layer, ok |-> r.ok])
  /\ IF r.ok
     THEN result' = Success(r.t, layer) /\ pc' = "done"
     ELSE result' = result /\ pc' = next
  /\ UNCHANGED << Arguments, loc >>

\* Layer 1, lines 32-36
TryDuration ==
  /\ pc = "layer1" /\ fuzzy
  /\ LayerRan("duration", parseDurationRelative(input, refInTz), "layer2")

\* SkipDuration with the test of the flag left out of line 32: layer 1 runs
\* with fuzzy parsing off
RunDurationUnflagged ==
  /\ pc = "layer1" /\ ~fuzzy
  /\ LayerRan("duration", parseDurationRelative(input, refInTz), "layer2")

SkipDuration ==
  /\ pc = "layer1" /\ ~fuzzy
  /\ pc' = "layer2"
  /\ UNCHANGED << Arguments, loc, attempted, result >>

\* Layer 2, lines 39-41
TryDateparse ==
  /\ pc = "layer2"
  /\ LayerRan("dateparse", DateParseIn(input, loc), "layer3")

\* Layer 3, lines 44-48
TryNLP ==
  /\ pc = "layer3" /\ fuzzy
  /\ LayerRan("nlp", parseWithWhenLibrary(input, refInTz, loc), "layer4")

SkipNLP ==
  /\ pc = "layer3" /\ ~fuzzy
  /\ pc' = "layer4"
  /\ UNCHANGED << Arguments, loc, attempted, result >>

\* Layer 4, line 51: whatever ParseTimestamp returns is returned
TryStrict ==
  LET Returned(r) ==
        /\ attempted' = Append(attempted, [layer |-> "strict", ok |-> r.ok])
        /\ result' = IF r.ok THEN Success(r.t, "strict") ELSE r
  IN /\ pc = "layer4"
     /\ Returned(ParseTimestamp(input, timezone))
     /\ pc' = "done"
     /\ UNCHANGED << Arguments, loc >>

Next ==
  \/ CallParseTimestamp
  \/ CallParseDurationRelative
  \/ CallFormatDuration
  \/ CallHandleFormatDuration
  \/ CallGetTimeContext
  \/ CallGetTimeDescription
  \/ CallHandleTimeDifference
  \/ CallTimeSince
  \/ CallHandleTimeSince
  \/ CallHandleListTimezones
  \/ ReturnAddTime
  \/ ReturnParseTimestamp
  \/ ReturnTimestampContext
  \/ LoadTimezone
  \/ TryDuration
  \/ SkipDuration
  \/ TryDateparse
  \/ TryNLP
  \/ SkipNLP
  \/ TryStrict

Spec == Init /\ [][Next]_vars

(***************************************************************************)
(* The calls of ParseFuzzyTimestamp alone, each followed to its return.  A *)
(* call is a sequence of statements of one goroutine, which goes on to its *)
(* next statement as long as it has one.                                   *)
(***************************************************************************)
ChainInputs ==
  {"2h30m", "-14d", "2025-08-12 15:00:00", "2025-08-12", "tomorrow at 3pm",
   "3 days and 2 hours ago", "3 days and 2 hours and 30 minutes ago",
   "2h30m and 3 days", "not-a-date", ""}

InitChain ==
  /\ op = "ParseFuzzyTimestamp"
  /\ input \in ChainInputs /\ timezone \in Timezones /\ fuzzy \in BOOLEAN
  /\ ref \in References /\ clock = ref
  /\ args = NoArgs
  /\ earlier = << >>
  /\ waiting = << >>
  /\ Called

NextChain ==
  \/ LoadTimezone
  \/ TryDuration
  \/ SkipDuration
  \/ TryDateparse
  \/ TryNLP
  \/ SkipNLP
  \/ TryStrict

\* the steps that run no layer
Passing == LoadTimezone \/ SkipDuration \/ SkipNLP

\* the steps that run a layer
TryLayer == TryDuration \/ TryDateparse \/ TryNLP \/ TryStrict

\* a layer is about to run: the tests of pc and of the flag that TryDuration,
\* TryDateparse, TryNLP and TryStrict begin with; what follows them in each
\* is assignments
Trying ==
  \/ pc = "layer1" /\ fuzzy
  \/ pc = "layer2"
  \/ pc = "layer3" /\ fuzzy
  \/ pc = "layer4"

\* weak fairness of the steps of the call; that of TryLayer is written out,
\* with Trying for ENABLED <<TryLayer>>_vars
SpecChain ==
  /\ InitChain /\ [][NextChain]_vars
  /\ WF_vars(Passing)
  /\ ([]<>~Trying \/ []<><<TryLayer>>_vars)

(***************************************************************************)
(* A process that calls the core functions one after another: when a call  *)
(* has returned the process makes the next one, at some time of the wall   *)
(* clock, with the arguments of a call it has made before or with those of *)
(* another call.  The package has no variable that a call assigns          *)
(* (parser.go and compat.go declare none), so that a new call starts from  *)
(* its arguments and fresh locals.                                         *)
(***************************************************************************)
CoreOps == {"ParseFuzzyTimestamp", "ParseTimestamp", "FormatDuration"}

PureInputs ==
  {"2h30m", "3 days and 2 hours ago", "tomorrow at 3pm", "2025-08-12 15:00:00",
   "not-a-date"}

PureTimezones == {"UTC", "America/New_York", "Invalid/Timezone"}

PureReferences ==
  {GoDate(2025, 8, 11, 12, 0, 0, 0, "UTC"), GoDate(2025, 3, 8, 12, 0, 0, 0, "UTC")}

PureFormats == [seconds : {36650, -50}, style : {"full", "minimal"},
                isNegative : BOOLEAN]

\* the arguments of a call of a core function, as a record
PureCalls ==
  [op : {"ParseFuzzyTimestamp", "ParseTimestamp"}, input : PureInputs,
   timezone : PureTimezones, fuzzy : BOOLEAN, ref : PureReferences, args : {NoArgs}]
    \cup [op : {"FormatDuration"}, input : {""}, timezone : {"UTC"}, fuzzy : {FALSE},
          ref : {ClockStart}, args : PureFormats]

\* a call made between two calls that have the same arguments
OtherCall ==
  [op |-> "ParseFuzzyTimestamp", input |-> "yesterday at 3pm",
   timezone |-> "Asia/Tokyo", fuzzy |-> TRUE,
   ref |-> GoDate(2024, 2, 29, 23, 30, 0, 0, "UTC"), args |-> NoArgs]

ThisCall ==
  [op |-> op, input |-> input, timezone |-> timezone, fuzzy |-> fuzzy, ref |-> ref,
   args |-> args]

\* what the claim calls the inputs of a call: ParseTimestamp is given
\* ParseOptions whole, and of it the timezone alone counts as its input
InputsOf(c) ==
  CASE c.op = "ParseTimestamp" -> << c.op, c.input, c.timezone >>
    [] c.op = "FormatDuration" -> << c.op, c.args >>
    [] OTHER -> << c.op, c.input, c.timezone, c.fuzzy, c.ref >>

InitPure ==
  /\ \E c \in PureCalls :
       /\ op = c.op /\ input = c.input /\ timezone = c.timezone /\ fuzzy = c.fuzzy
       /\ ref = c.ref /\ args = c.args
  /\ clock \in Clocks
  /\ earlier = << >>
  /\ waiting = << >>
  /\ Called

\* the process makes call c when the clock is at
MakeCall(c, at) ==
  /\ op' = c.op /\ input' = c.input /\ timezone' = c.timezone /\ fuzzy' = c.fuzzy
  /\ ref' = c.ref /\ args' = c.args
  /\ clock' = at /\ waiting' = waiting
  /\ pc' = "start" /\ loc' = "UTC" /\ attempted' = << >> /\ result' = NoResult

\* the calls that have the inputs of one made before, and OtherCall
NextCalls ==
  {c \in PureCalls :
     \/ InputsOf(c) = InputsOf(ThisCall)
     \/ \E i \in 1..Len(earlier) : InputsOf(c) = InputsOf(earlier[i].call)}
    \cup {OtherCall}

\* a call has returned and the process makes another
CallAgain ==
  /\ pc = "done" /\ op \in CoreOps /\ Len(earlier) < MaxCalls
  /\ earlier' = Append(earlier, [call |-> ThisCall, clock |-> clock,
                                 result |-> result])
  /\ \E c \in NextCalls, at \in Clocks : MakeCall(c, at)

NextPure ==
  \/ CallParseTimestamp
  \/ CallFormatDuration
  \/ LoadTimezone
  \/ TryDuration
  \/ SkipDuration
  \/ TryDateparse
  \/ TryNLP
  \/ SkipNLP
  \/ TryStrict
  \/ CallAgain

SpecPure == InitPure /\ [][NextPure]_vars

(***************************************************************************)
(* Two goroutines that call the core functions at the same time, with no   *)
(* lock: the steps of the two calls interleave in every order.  The        *)
(* scheduler takes the running goroutine off and puts the waiting one on;  *)
(* a goroutine keeps its arguments, its position and its locals, and the   *)
(* two share what the package shares, of which no call assigns any part.   *)
(***************************************************************************)
\* the goroutine that is running: the call it makes, its position, its
\* locals
ThisFrame ==
  [call |-> ThisCall, pc |-> pc, loc |-> loc, attempted |-> attempted,
   result |-> result]

ConcurrentCalls ==
  {c \in PureCalls : c.ref = ClockStart /\ (c.op = "ParseTimestamp" => ~c.fuzzy)}
    \cup {OtherCall}

\* Resume with loc a variable of the package, which the goroutines share,
\* and not a local of ParseFuzzyTimestamp
ResumeSharedLoc(f) ==
  /\ op' = f.call.op /\ input' = f.call.input /\ timezone' = f.call.timezone
  /\ fuzzy' = f.call.fuzzy /\ ref' = f.call.ref /\ args' = f.call.args
  /\ pc' = f.pc /\ loc' = loc /\ attempted' = f.attempted /\ result' = f.result

\* the goroutine of frame f runs on
Resume(f) ==
  /\ op' = f.call.op /\ input' = f.call.input /\ timezone' = f.call.timezone
  /\ fuzzy' = f.call.fuzzy /\ ref' = f.call.ref /\ args' = f.call.args
  /\ pc' = f.pc /\ loc' = f.loc /\ attempted' = f.attempted /\ result' = f.result

InitConcurrent ==
  /\ \E c \in ConcurrentCalls :
       /\ op = c.op /\ input = c.input /\ timezone = c.timezone /\ fuzzy = c.fuzzy
       /\ ref = c.ref /\ args = c.args
  /\ waiting \in {<< [call |-> d, pc |-> "start", loc |-> "UTC", attempted |-> << >>,
                      result |-> NoResult] >> : d \in ConcurrentCalls}
  /\ clock = ClockStart
  /\ earlier = << >>
  /\ Called

\* the scheduler switches goroutines between two steps
Switch ==
  /\ Len(waiting) = 1
  /\ waiting' = << ThisFrame >>
  /\ Resume(waiting[1])
  /\ UNCHANGED << clock, earlier >>

NextConcurrent ==
  \/ CallParseTimestamp
  \/ CallFormatDuration
  \/ LoadTimezone
  \/ TryDuration
  \/ SkipDuration
  \/ TryDateparse
  \/ TryNLP
  \/ SkipNLP
  \/ TryStrict
  \/ Switch

SpecConcurrent == InitConcurrent /\ [][NextConcurrent]_vars

(***************************************************************************)
(* Properties of the layer chain of ParseFuzzyTimestamp.                   *)
(***************************************************************************)
LayerOrder == << "duration", "dateparse", "nlp", "strict" >>

\* the layers the flag enables, in the order they are to be tried
EnabledLayers == IF fuzzy THEN LayerOrder ELSE << "dateparse", "strict" >>

\* what a layer taken alone makes of the arguments of the call
LayerOutcome(layer) ==
  CASE layer = "duration"  -> parseDurationRelative(input, refInTz)
    [] layer = "dateparse" -> DateParseIn(input, loc)
    [] layer = "nlp"       -> parseWithWhenLibrary(input, refInTz, loc)
    [] layer = "strict"    -> [ok |-> ParseTimestamp(input, timezone).ok,
                               t  |-> ParseTimestamp(input, timezone).t]

LastAttempted == attempted[Len(attempted)]

\* C1: ParseFuzzyTimestamp tries the layers in the fixed order duration,
\* dateparse, natural language, strict; a layer is attempted only when every
\* layer attempted before it failed; the call returns the result of the
\* first layer that succeeds, and it fails only when every enabled layer,
\* the strict one last, has failed.
C1_LayerOrder ==
  op = "ParseFuzzyTimestamp" =>
    /\ Len(attempted) <= Len(EnabledLayers)
    /\ \A i \in 1..Len(attempted) :
         /\ attempted[i].layer = EnabledLayers[i]
         /\ attempted[i].ok = LayerOutcome(EnabledLayers[i]).ok
         /\ i < Len(attempted) => ~attempted[i].ok
    /\ pc = "done" =>
         /\ Len(attempted) >= 1
         /\ result.ok = LastAttempted.ok
         /\ result.ok => /\ result.by = LastAttempted.layer
                         /\ result.t = LayerOutcome(result.by).t
         /\ ~result.ok => /\ Len(attempted) = Len(EnabledLayers)
                          /\ LastAttempted.layer = "strict"

\* a call that the natural-language layer answered after the duration and
\* dateparse layers had failed
C1_Witness ==
  /\ op = "ParseFuzzyTimestamp" /\ pc = "done"
  /\ result.ok /\ result.by = "nlp"
  /\ Len(attempted) = 3 /\ ~attempted[1].ok /\ ~attempted[2].ok

\* C2: with fuzzy parsing off ParseFuzzyTimestamp attempts neither the
\* duration layer nor the natural-language layer: dateparse runs and then
\* the strict parser, so an input only those two layers accept ("-14d",
\* "tomorrow at 3pm", any "<n><unit>") fails, and "2025-08-12T15:00:00Z",
\* which dateparse accepts, resolves to that instant.
C2_FuzzyOff ==
  (op = "ParseFuzzyTimestamp" /\ ~fuzzy) =>
    /\ \A i \in 1..Len(attempted) : attempted[i].layer \notin {"duration", "nlp"}
    /\ pc = "done" =>
         /\ attempted[1].layer = "dateparse"
         /\ Len(attempted) = 2 => attempted[2].layer = "strict"
         /\ input \in ExtendedInputs \cup {"-14d", "tomorrow at 3pm"} => ~result.ok
         /\ input = "2025-08-12T15:00:00Z" =>
              /\ result.ok /\ result.by = "dateparse"
              /\ result.t.unix = WallSeconds(2025, 8, 12, 15, 0, 0)
              /\ result.t.ms = 0

\* "tomorrow at 3pm" has failed with fuzzy parsing off, after dateparse and
\* the strict parser alone were tried
C2_Witness ==
  /\ op = "ParseFuzzyTimestamp" /\ ~fuzzy /\ pc = "done"
  /\ input = "tomorrow at 3pm" /\ ~result.ok
  /\ Len(attempted) = 2

\* two times are the same instant
TimeEqual(a, b) == a.unix = b.unix /\ a.ms = b.ms

\* the text s begins with p
HasPrefix(s, p) == Len(s) >= Len(p) /\ Sub(s, 1, Len(p)) = p

\* C3: a timezone name the database does not know is surfaced and never
\* defaulted: for every input and either value of the flag,
\* ParseFuzzyTimestamp called with such a name fails with an
\* invalid-timezone error, and so does ParseTimestamp.
C3_InvalidTimezoneSurfaced ==
  (/\ op \in {"ParseFuzzyTimestamp", "ParseTimestamp"} /\ pc = "done"
   /\ ~LoadLocation(timezone).ok) =>
    ~result.ok /\ HasPrefix(result.err, "invalid timezone")

\* C4: when ParseTimestamp, and so ParseFuzzyTimestamp, fails because no
\* layout matches, the error message contains the raw input exactly as the
\* caller supplied it, and the example formats.
C4_RawInputInError ==
  (/\ op \in {"ParseFuzzyTimestamp", "ParseTimestamp"} /\ pc = "done"
   /\ ~result.ok /\ HasPrefix(result.err, ErrFormatHead)) =>
    /\ Contains(result.err, "'" \o input \o "'")
    /\ Contains(result.err, "2025-07-19T08:45:40.501Z")
    /\ Contains(result.err, "YYYY-MM-DD HH:MM:SS")
    /\ Contains(result.err, "'YYYY-MM-DD'")

(***************************************************************************)
(* Properties of the relative-duration layer.                              *)
(***************************************************************************)
\* the day number of the wall-clock date of t
WallDay(t) == DaysFromCivil(Wall(t).year, Wall(t).month, Wall(t).day)

\* the months of the wall-clock date of t, counted from year 0
WallMonth(t) == Wall(t).year * 12 + Wall(t).month

SameClock(a, b) ==
  /\ Wall(a).hour = Wall(b).hour
  /\ Wall(a).minute = Wall(b).minute
  /\ Wall(a).second = Wall(b).second

\* the length of the inputs in Go's duration syntax, in seconds and
\* milliseconds
GoDurationLength(s) ==
  CASE s = "2h30m" -> << 9000, 0 >>
    [] s = "-5s"   -> << -5, 0 >>
    [] s = "1m"    -> << 60, 0 >>
    [] s = "0s"    -> << 0, 0 >>
    [] s = "-6h"   -> << -21600, 0 >>
    [] s = "1h1ms" -> << 3600, 1 >>
    [] s = "0"     -> << 0, 0 >>

\* the result of "<n><unit>" with the signed count v, against the reference
\* r in the target location
ShiftedBy(r, v, u) ==
  /\ result.ok /\ result.by = "duration"
  /\ result.t.loc = r.loc /\ result.t.ms = r.ms
  /\ result.t = CASE u = "d" -> AddDate(r, 0, 0, v)
                  [] u = "w" -> AddDate(r, 0, 0, 7 * v)
                  [] u = "M" -> AddDate(r, 0, v, 0)
                  [] u = "y" -> AddDate(r, v, 0, 0)
  /\ v = 0 => TimeEqual(result.t, r)
  /\ u = "d" => WallDay(result.t) = WallDay(r) + v /\ SameClock(result.t, r)
  /\ u = "w" => WallDay(result.t) = WallDay(r) + 7 * v /\ SameClock(result.t, r)
  /\ (u = "M" /\ Wall(r).day <= 28) =>
       /\ WallMonth(result.t) = WallMonth(r) + v
       /\ Wall(result.t).day = Wall(r).day /\ SameClock(result.t, r)
  /\ (u = "y" /\ Wall(r).day <= 28) =>
       /\ WallMonth(result.t) = WallMonth(r) + 12 * v
       /\ Wall(result.t).day = Wall(r).day /\ SameClock(result.t, r)

\* C5: with fuzzy parsing on, an optional "-", a count n and a unit of d, w,
\* M, y resolve to the reference instant in the target location moved by
\* calendar addition of n days, 7n days, n months or n years (backwards
\* after "-"), not by a fixed number of seconds; n = 0 is the reference
\* instant itself; an input in Go's duration syntax is tried first and is
\* the reference plus that fixed length, so "1m" is a minute and "1M" a
\* month.
C5_CalendarShift ==
  (op = "ParseFuzzyTimestamp" /\ fuzzy /\ pc = "done") =>
    /\ \A neg \in BOOLEAN, n \in 0..MaxN, u \in ExtendedUnits :
         input = ExtendedInput(neg, n, u) =>
           ShiftedBy(In(ref, loc), IF neg THEN -n ELSE n, u)
    /\ input \in GoDurationInputs =>
         /\ result.ok /\ result.by = "duration"
         /\ result.t = AddDuration(In(ref, loc), GoDurationLength(input)[1],
                                   GoDurationLength(input)[2])
    /\ input = "1m" => result.t.unix = ref.unix + 60
    /\ (input = "1M" /\ loc = "UTC") => WallMonth(result.t) > WallMonth(ref)
    /\ (input = "1d" /\ loc = "America/New_York"
          /\ ref = GoDate(2025, 3, 8, 12, 0, 0, 0, "UTC")) =>
         result.t.unix = ref.unix + 23 * 3600

\* "1d" from 2025-03-08 in New York, across the start of daylight time: the
\* same wall clock a day on, 23 hours later
C5_Witness ==
  /\ op = "ParseFuzzyTimestamp" /\ fuzzy /\ pc = "done"
  /\ input = "1d" /\ timezone = "America/New_York"
  /\ result.ok /\ result.t.unix = ref.unix + 23 * 3600
  /\ SameClock(result.t, In(ref, loc))

\* the whole of s is an optional "-", digits and one letter of d, w, M, y
WholeExtended(s) ==
  LET body == IF Ch(s, 1) = "-" THEN Sub(s, 2, Len(s)) ELSE s
  IN /\ Len(body) >= 2
     /\ AllDigits(Sub(body, 1, Len(body) - 1))
     /\ Ch(body, Len(body)) \in ExtendedUnits

\* the duration layer accepted the input of the call by its extended
\* grammar (Go's duration syntax does not read it)
ExtendedAccepted ==
  /\ ~ParseDuration(input).ok
  /\ \/ op = "parseDurationRelative" /\ pc = "done" /\ result.ok
     \/ op = "ParseFuzzyTimestamp" /\ Len(attempted) >= 1
          /\ attempted[1].layer = "duration" /\ attempted[1].ok

ExtendedRejected ==
  \/ op = "parseDurationRelative" /\ pc = "done" /\ ~result.ok
  \/ op = "ParseFuzzyTimestamp" /\ Len(attempted) >= 1
       /\ attempted[1].layer = "duration" /\ ~attempted[1].ok

HalfOffset(h) ==
  CASE h = "3 days"     -> -259200
    [] h = "2 hours"    -> -7200
    [] h = "30 minutes" -> -1800
    [] h = "3 days ago" -> -259200

Phrases == Halves \ {"xyz"}

\* C7: for "X and Y ago" both halves are resolved against the same
\* reference instant R, "ago" applying to both, and the result is
\* R + (x - R) + (y - R); "3 days and 2 hours ago" is R less 3 days and
\* 2 hours.
C7_CompoundSum ==
  (op = "ParseFuzzyTimestamp" /\ fuzzy /\ pc = "done") =>
    /\ \A x \in Phrases, y \in Phrases :
         input = CompoundInput(x, y, TRUE) =>
           /\ result.ok /\ result.by = "nlp"
           /\ result.t.unix = ref.unix + HalfOffset(x) + HalfOffset(y)
           /\ result.t.ms = ref.ms
           /\ result.t.loc = loc
    /\ input \in {"3 days and 2 hours ago", "3 DAYS AND 2 HOURS AGO"} =>
         result.ok /\ result.t.unix = ref.unix - 3 * 86400 - 2 * 3600

C7_Witness ==
  /\ op = "ParseFuzzyTimestamp" /\ fuzzy /\ pc = "done"
  /\ input = "3 days and 2 hours ago"
  /\ result.ok /\ result.by = "nlp"
  /\ result.t.unix = ref.unix - 266400

\* C8: when a half of an "X and Y" input does not parse the whole input
\* fails: ParseFuzzyTimestamp returns no instant that comes of one half.
C8_NoPartialResult ==
  (op = "ParseFuzzyTimestamp" /\ fuzzy /\ pc = "done") =>
    \A x \in Halves, y \in Halves, ago \in BOOLEAN :
      (input = CompoundInput(x, y, ago) /\ (x = "xyz" \/ y = "xyz")) =>
        ~result.ok

(***************************************************************************)
(* Properties of the strict parser.                                        *)
(***************************************************************************)
\* the dates and times of the pools that are dates and times
ValidDates == PoolDates \ {"2025-02-30"}

ValidClocks == PoolClocks \ {"24:00:00"}

\* the wall clock a date and a time of the pools spell
WallOf(d, c) ==
  [year   |-> Atoi(Sub(d, 1, 4)), month  |-> Atoi(Sub(d, 6, 7)),
   day    |-> Atoi(Sub(d, 9, 10)), hour   |-> Atoi(Sub(c, 1, 2)),
   minute |-> Atoi(Sub(c, 4, 5)), second |-> Atoi(Sub(c, 7, 8))]

\* the seconds east of UTC a zone of the pools spells
ZoneSeconds(z) ==
  CASE z = "Z" -> 0 [] z = "+09:00" -> 32400 [] z = "-05:00" -> -18000

\* the instant of the wall clock d c at off seconds east of UTC
InstantAt(d, c, off) ==
  WallSeconds(WallOf(d, c).year, WallOf(d, c).month, WallOf(d, c).day,
              WallOf(d, c).hour, WallOf(d, c).minute, WallOf(d, c).second) - off

\* the wall clock no instant has in the location: 02:30 on the day
\* daylight time starts in New York
NoSuchWall(target, d, c) ==
  target = "America/New_York" /\ d = "2025-03-09" /\ c = "02:30:00"

Target == LoadLocation(timezone).loc

\* the offsets of a location: the one of its winter and the one of its summer
OffsetsOf(l) ==
  {ZoneLookup(l, InstantAt("2025-01-15", "12:00:00", 0)).offset,
   ZoneLookup(l, InstantAt("2025-07-15", "12:00:00", 0)).offset}

\* C9: ParseTimestamp tries its layouts in a fixed order and the first that
\* matches wins: a text with a zone is that instant, rendered in the target
\* location; a date and time without a zone, after "T" or a space, is the
\* wall clock in the target location (a wall clock that daylight time skips
\* is read at one of the two offsets of the location); a date alone is
\* midnight of that date in the target location.
C9_Layouts ==
  (op = "ParseTimestamp" /\ pc = "done" /\ LoadLocation(timezone).ok) =>
    /\ \A d \in PoolDates, c \in PoolClocks, z \in PoolZones :
         input = ZonedInput(d, c, z) =>
           IF d \in ValidDates /\ c \in ValidClocks
           THEN /\ result.ok /\ result.by = "rfc3339"
                /\ result.t.unix = InstantAt(d, c, ZoneSeconds(z))
                /\ result.t.ms = 0
                /\ result.t.loc = Target
           ELSE ~result.ok
    /\ \A d \in PoolDates, sep \in {"T", " "}, c \in PoolClocks :
         input = LocalInput(d, sep, c) =>
           IF d \in ValidDates /\ c \in ValidClocks
           THEN /\ result.ok /\ result.by = (IF sep = "T" THEN "iso" ELSE "full")
                /\ result.t.loc = Target
                /\ ~NoSuchWall(Target, d, c) => Wall(result.t) = WallOf(d, c)
                /\ \E off \in OffsetsOf(Target) :
                     result.t.unix = InstantAt(d, c, off)
           ELSE ~result.ok
    /\ \A d \in PoolDates :
         input = d =>
           IF d \in ValidDates
           THEN /\ result.ok /\ result.by = "date"
                /\ result.t.loc = Target
                /\ Wall(result.t) = WallOf(d, "00:00:00")
           ELSE ~result.ok
    /\ input = "2025-07-19T08:45:40.501Z" =>
         /\ result.ok /\ result.by = "rfc3339" /\ result.t.ms = 501
         /\ result.t.unix = InstantAt("2025-07-19", "08:45:40", 0)
    /\ input = "2025-07-19T08:45:40.501" =>
         /\ result.ok /\ result.by = "iso" /\ result.t.ms = 501
         /\ Wall(result.t) = WallOf("2025-07-19", "08:45:40")

\* 08:45:40 at five hours west of UTC, asked for in Tokyo: the same instant,
\* 22:45:40 there
C9_Witness ==
  /\ op = "ParseTimestamp" /\ pc = "done" /\ timezone = "Asia/Tokyo"
  /\ input = ZonedInput("2025-07-19", "08:45:40", "-05:00")
  /\ result.ok /\ result.t.loc = "Asia/Tokyo"
  /\ Wall(result.t) = WallOf("2025-07-19", "22:45:40")

\* C10: a text of exactly three fields whose third has at most 4 characters
\* is parsed by dropping the third field and reading the first two as
\* "YYYY-MM-DD HH:MM:SS" in the target location: the result is the same
\* whatever the token, which is never resolved to an offset; a third field
\* of more than 4 characters makes the text fail.
C10_TrailingToken ==
  (op = "ParseTimestamp" /\ pc = "done" /\ LoadLocation(timezone).ok) =>
    \A d \in SuffixDates, c \in SuffixClocks, k \in PoolTokens :
      input = SuffixInput(d, c, k) =>
        IF Len(k) <= 4
        THEN /\ result.ok /\ result.by = "suffix"
             /\ result.t = ParseTimestamp(LocalInput(d, " ", c), timezone).t
             /\ result.t.loc = Target
             /\ Wall(result.t) = WallOf(d, c)
        ELSE ~result.ok

\* "EST" after a date and time, asked for in Tokyo: the wall clock in Tokyo
C10_Witness ==
  /\ op = "ParseTimestamp" /\ pc = "done" /\ timezone = "Asia/Tokyo"
  /\ input = SuffixInput("2025-07-19", "08:45:40", "EST")
  /\ result.ok /\ result.by = "suffix"
  /\ result.t.unix = InstantAt("2025-07-19", "08:45:40", 32400)

(***************************************************************************)
(* Properties of rendering and parsing again.                              *)
(***************************************************************************)
\* C11: strict parsing is idempotent: for every input ParseTimestamp
\* accepts in a timezone, the rendering of the resulting instant (RFC 3339,
\* the rendering the program gives instants) is accepted by ParseTimestamp
\* in the same timezone and yields an equal instant.
C11_StrictIdempotent ==
  LET Same(r) == r.ok /\ TimeEqual(r.t, result.t)
  IN (op = "ParseTimestamp" /\ pc = "done" /\ result.ok) =>
       Same(ParseTimestamp(FormatRFC3339(result.t), timezone))

\* the text is empty or white space alone
Blank(s) == \A i \in 1..Len(s) : IsSpace(Ch(s, i))

\* C12: for an empty input or one of white space alone, with a timezone the
\* database knows, ParseFuzzyTimestamp fails in both fuzzy modes, every
\* enabled layer having declined the input, with the "invalid timestamp
\* format" error, and so does ParseTimestamp.
C12_BlankInputFails ==
  (/\ op \in {"ParseFuzzyTimestamp", "ParseTimestamp"} /\ pc = "done"
   /\ LoadLocation(timezone).ok /\ Blank(input)) =>
    /\ ~result.ok
    /\ HasPrefix(result.err, ErrFormatHead)
    /\ Contains(result.err, ErrFormatTail)
    /\ op = "ParseFuzzyTimestamp" =>
         /\ Len(attempted) = Len(EnabledLayers)
         /\ \A i \in 1..Len(attempted) : ~attempted[i].ok

\* white space alone has failed with fuzzy parsing on, after all four layers
C12_Witness ==
  /\ op = "ParseFuzzyTimestamp" /\ fuzzy /\ pc = "done"
  /\ input # "" /\ Blank(input) /\ timezone = "America/New_York"
  /\ ~result.ok /\ Len(attempted) = 4

(***************************************************************************)
(* Properties of FormatDuration.                                           *)
(***************************************************************************)
\* the whole seconds of a duration of x tenths of a second, x >= 0, and its
\* days, hours, minutes and seconds by floor division
WholeSeconds(x) == x \div 10

PartsOf(w) ==
  [d |-> w \div 86400, h |-> (w % 86400) \div 3600, m |-> (w % 3600) \div 60,
   s |-> w % 60]

Formatted == op = "FormatDuration" /\ pc = "done" /\ args.seconds >= 0

\* C13: for every non-negative number of seconds the days, hours, minutes
\* and seconds FormatDuration works with are one truncating decomposition
\* of it: 0 <= hours < 24, 0 <= minutes < 60, 0 <= seconds < 60, and
\* days*86400 + hours*3600 + minutes*60 + seconds is the number of seconds
\* truncated to a whole number; nothing is rounded or carried.
C13_Decomposition ==
  LET Decomposed(d, h, m, s, p) ==
        /\ d >= 0 /\ h \in 0..23 /\ m \in 0..59 /\ s \in 0..59
        /\ d * 86400 + h * 3600 + m * 60 + s = WholeSeconds(args.seconds)
        /\ << d, h, m, s >> = << p.d, p.h, p.m, p.s >>
        /\ (args.style = "minimal" /\ ~args.isNegative /\ d > 0) =>
             result.text = FmtInt(p.d) \o ":" \o Pad(p.h, 2) \o ":" \o Pad(p.m, 2)
                             \o ":" \o Pad(p.s, 2)
  IN Formatted =>
       Decomposed(days(args.seconds), hours(args.seconds), minutes(args.seconds),
                  secs(args.seconds), PartsOf(WholeSeconds(args.seconds)))

\* 90061.9 seconds are 1 day, 1 hour, 1 minute and 1 second
C13_Witness ==
  /\ Formatted /\ args.seconds = 900619 /\ args.style = "minimal"
  /\ ~args.isNegative /\ result.text = "1:01:01:01"

\* the components of a duration that are not zero, in the order days,
\* hours, minutes, seconds, each with its unit
NonZero(p) ==
  SelectSeq(<< [n |-> p.d, unit |-> "day"], [n |-> p.h, unit |-> "hour"],
               [n |-> p.m, unit |-> "minute"], [n |-> p.s, unit |-> "second"] >>,
            LAMBDA c : c.n # 0)

FullWord(c) == FmtInt(c.n) \o " " \o c.unit \o (IF c.n = 1 THEN "" ELSE "s")

CompactWord(c) == FmtInt(c.n) \o Sub(c.unit, 1, 1)

\* the words of the components, sep between them
RECURSIVE Listed(_, _, _)
Listed(cs, full, sep) ==
  IF Len(cs) = 0 THEN ""
  ELSE (IF full THEN FullWord(cs[1]) ELSE CompactWord(cs[1]))
         \o (IF Len(cs) = 1 THEN "" ELSE sep \o Listed(Tail(cs), full, sep))

\* C14: in the full and compact styles FormatDuration lists exactly the
\* components that are not zero, in the order days, hours, minutes,
\* seconds: "<n> <unit>" joined by ", ", the unit singular when n = 1, in
\* the full style, and "<n>d", "<n>h", "<n>m", "<n>s" joined by a space in
\* the compact style; the output is never empty, and a duration of zero
\* gives "0 seconds" and "0s".
C14_NonZeroComponents ==
  LET Lists(cs) ==
        /\ result.text # ""
        /\ (args.style = "full" /\ cs # << >>) => result.text = Listed(cs, TRUE, ", ")
        /\ (args.style = "full" /\ cs = << >>) => result.text = "0 seconds"
        /\ (args.style = "compact" /\ cs # << >>) =>
             result.text = Listed(cs, FALSE, " ")
        /\ (args.style = "compact" /\ cs = << >>) => result.text = "0s"
  IN (Formatted /\ ~args.isNegative) =>
       Lists(NonZero(PartsOf(WholeSeconds(args.seconds))))

\* a day and a second, the hours and minutes left out; and nothing at all
C14_Witness ==
  /\ Formatted /\ ~args.isNegative /\ args.style = "full"
  /\ args.seconds = 864010 /\ result.text = "1 day, 1 second"

\* C15: in the minimal style FormatDuration gives numeric fields with
\* colons between them, as many as the largest unit that is not zero asks
\* for: "m:ss" without hours and days, "h:mm:ss" with hours and no days,
\* "d:hh:mm:ss" with days; every field after the first has two digits
\* (3665 gives "1:01:05", 125 gives "2:05").
C15_MinimalFields ==
  LET Fields3(p) == Pad(p.m, 2) \o ":" \o Pad(p.s, 2)
      Shaped(p) ==
        /\ (p.d = 0 /\ p.h = 0) => result.text = FmtInt(p.m) \o ":" \o Pad(p.s, 2)
        /\ (p.d = 0 /\ p.h > 0) => result.text = FmtInt(p.h) \o ":" \o Fields3(p)
        /\ p.d > 0 =>
             result.text = FmtInt(p.d) \o ":" \o Pad(p.h, 2) \o ":" \o Fields3(p)
        /\ args.seconds = 36650 => result.text = "1:01:05"
        /\ args.seconds = 1250 => result.text = "2:05"
  IN (Formatted /\ ~args.isNegative /\ args.style = "minimal") =>
       Shaped(PartsOf(WholeSeconds(args.seconds)))

C15_Witness ==
  /\ Formatted /\ ~args.isNegative /\ args.style = "minimal"
  /\ args.seconds = 36650 /\ result.text = "1:01:05"

\* C16: for every duration and every style, FormatDuration with the sign
\* flag set gives "-" followed by what it gives with the flag not set.
C16_SignPrepended ==
  (op = "FormatDuration" /\ pc = "done") =>
    /\ args.isNegative =>
         result.text = "-" \o formatDuration(args.seconds, args.style, FALSE)
    /\ ~args.isNegative =>
         "-" \o result.text = formatDuration(args.seconds, args.style, TRUE)

C16_Witness ==
  /\ op = "FormatDuration" /\ pc = "done" /\ args.isNegative
  /\ args.seconds = 36650 /\ args.style = "compact" /\ result.text = "-1h 1m 5s"

\* C17: a style other than full, compact and minimal is surfaced as an
\* error that names it: FormatDuration and the format_duration tool never
\* put a default style in the place of a style they do not know.
C17_UnknownStyleSurfaced ==
  (/\ op \in {"FormatDuration", "handleFormatDuration"} /\ pc = "done"
   /\ args.style \notin {"full", "compact", "minimal", ""}) =>
    ~result.ok /\ Contains(result.err, args.style)

(***************************************************************************)
(* Properties of GetTimeContext and GetTimeDescription.                    *)
(***************************************************************************)
\* the buckets of the table, each with its condition on d, a difference in
\* tenths of a second; same is whether target and reference have the same
\* day-of-month number
Buckets(d, same) ==
  {[text |-> "in the future", holds |-> d < 0],
   [text |-> "just now", holds |-> 0 <= d /\ d < 600],
   [text |-> "earlier", holds |-> 600 <= d /\ d < 36000],
   [text |-> "earlier today", holds |-> 36000 <= d /\ d < 864000 /\ same],
   [text |-> "yesterday",
    holds |-> \/ 36000 <= d /\ d < 864000 /\ ~same
              \/ 864000 <= d /\ d < 1728000],
   [text |-> "this week", holds |-> 1728000 <= d /\ d < 6048000],
   [text |-> "this month", holds |-> 6048000 <= d /\ d < 25920000],
   [text |-> "a while ago", holds |-> d >= 25920000]}

\* the day of the month of a time in its location
DayOfMonth(t) ==
  CivilFromDays((t.unix + ZoneLookup(t.loc, t.unix).offset) \div 86400).day

\* C19: GetTimeContext is total and its buckets exclude one another: for
\* every signed difference d it returns exactly one bucket, the one of the
\* table: d < 0 "in the future"; 0 <= d < 60 "just now"; 60 <= d < 3600
\* "earlier"; 3600 <= d < 86400 "earlier today" when target and reference
\* have the same day-of-month number and "yesterday" otherwise;
\* 86400 <= d < 172800 "yesterday"; 172800 <= d < 604800 "this week";
\* 604800 <= d < 2592000 "this month"; d >= 2592000 "a while ago".
C19_ContextBuckets ==
  LET Only(bs) ==
        /\ Cardinality({b \in bs : b.holds}) = 1
        /\ \A b \in bs : b.holds <=> (result.text = b.text)
  IN (op = "GetTimeContext" /\ pc = "done") =>
       /\ result.ok
       /\ Only(Buckets(args.seconds, DayOfMonth(args.t) = DayOfMonth(ref)))

\* less than a day ago by the seconds, with a target of another day of the
\* month: "yesterday"
C19_Witness ==
  /\ op = "GetTimeContext" /\ pc = "done"
  /\ args.seconds = 863999
  /\ DayOfMonth(args.t) # DayOfMonth(ref)
  /\ result.text = "yesterday"

\* target minus reference in milliseconds, and its days by division
\* truncated toward zero
MillisBetween(t, now) == (t.unix - now.unix) * 1000 + (t.ms - now.ms)

WholeDays(x) ==
  IF x >= 0 THEN x \div 86400000 ELSE -((-x) \div 86400000)

\* the description of the day the claim gives for a day difference
DayText(d, t) ==
  CASE d = 0 -> "today"
    [] d = 1 -> "tomorrow"
    [] d = -1 -> "yesterday"
    [] d \in 2..7 -> "next " \o FormatWeekday(t)
    [] d \in -7..-2 -> "last " \o FormatWeekday(t)
    [] OTHER -> formatLongDate(Wall(t))

\* C20: GetTimeDescription takes the day difference as target minus
\* reference in hours, divided by 24 and truncated toward zero, not as a
\* difference of calendar days, and maps it: 0 "today", 1 "tomorrow", -1
\* "yesterday", 2..7 "next <weekday of target>", -7..-2 "last <weekday of
\* target>", anything else the date with month, day and year; it appends
\* " at <h:mm AM/PM>" of the target when isDateOnly is false and nothing
\* when it is true.
C20_Description ==
  LET Described(day) ==
        /\ args.isDateOnly => result.text = day
        /\ ~args.isDateOnly =>
             result.text = day \o " at " \o formatKitchen(Wall(args.t))
  IN (op = "GetTimeDescription" /\ pc = "done") =>
       /\ result.ok
       /\ Described(DayText(WholeDays(MillisBetween(args.t, ref)), args.t))

\* an hour after 23:30 on 29 February is 00:30 on 1 March, the next day of
\* the calendar, and less than a day later: "today"
C20_Witness ==
  /\ op = "GetTimeDescription" /\ pc = "done" /\ ~args.isDateOnly
  /\ args.t.loc = "UTC" /\ ref.loc = "UTC"
  /\ DayOfMonth(ref) = 29 /\ DayOfMonth(args.t) = 1
  /\ result.text = "today at 12:30 AM"


(***************************************************************************)
(* Properties of the units of add_time and time_difference.                *)
(***************************************************************************)
AddTimeUnits == {"seconds", "minutes", "hours", "days", "weeks"}

DifferenceUnits == {"auto", "seconds", "minutes", "hours", "days"}

InvalidUnit(unit) == [ok |-> FALSE, text |-> "", err |-> "invalid unit: " \o unit]

\* C18: an unrecognised unit is surfaced as an "invalid unit" error that
\* names the value, and no result is produced.  add_time fails for every
\* unit outside seconds, minutes, hours, days, weeks, and with a timestamp
\* that parses the error is "invalid unit: " and the unit; time_difference
\* fails for every unit outside auto, seconds, minutes, hours, days, the
\* empty unit standing for auto, and with two timestamps that parse the
\* error is "invalid unit: " and the unit.  A recognised unit never gives
\* that error.
C18_InvalidUnit ==
  /\ (op = "handleAddTime" /\ pc = "returned") =>
       /\ args.unit \notin AddTimeUnits =>
            /\ ~result.ok
            /\ attempted[Len(attempted)].ok => result = InvalidUnit(args.unit)
       /\ args.unit \in AddTimeUnits => ~HasPrefix(result.err, "invalid unit")
  /\ (op = "handleTimeDifference" /\ pc = "done") =>
       /\ args.unit \notin DifferenceUnits \cup {""} =>
            /\ ~result.ok
            /\ (ParseTimestamp(input, timezone).ok
                  /\ ParseTimestamp(args.timestamp2, timezone).ok) =>
                 result = InvalidUnit(args.unit)
       /\ args.unit \in DifferenceUnits \cup {""} =>
            /\ ~HasPrefix(result.err, "invalid unit")
            /\ result.ok <=> (ParseTimestamp(input, timezone).ok
                                /\ ParseTimestamp(args.timestamp2, timezone).ok)
       /\ args.unit = "" =>
            result = handleTimeDifference(input, args.timestamp2, "auto", timezone)

\* add_time of a number of "months" to a date that parses has failed with
\* the unit in the error
C18_Witness ==
  /\ op = "handleAddTime" /\ pc = "returned"
  /\ input = "2025-07-19" /\ args.unit = "months"
  /\ attempted[Len(attempted)].ok
  /\ ~result.ok /\ result.err = "invalid unit: months"

MillisFrom(a, b) == (b.unix - a.unix) * 1000 + (b.ms - a.ms)

\* C22: TimeSince reports the time elapsed from the parsed timestamp to
\* ParseOptions.ReferenceTime: Duration is ReferenceTime minus the parsed
\* instant, positive for a timestamp before the reference and negative for
\* one after it, and EndTime is ReferenceTime, so that the result depends on
\* the reference given and not on the wall clock.
C22_ReferenceAnchors ==
  (op = "TimeSince" /\ pc = "done" /\ result.ok) =>
    /\ result.map.Duration = MillisFrom(ParseTimestamp(input, timezone).t, ref)
    /\ TimeEqual(result.map.EndTime, ref)

\* what holds of TimeSince: the elapsed time runs to the wall clock,
\* time.Now(), read when the function runs
C22_ClockAnchors ==
  (op = "TimeSince" /\ pc = "done" /\ result.ok) =>
    /\ result.map.Duration = MillisFrom(ParseTimestamp(input, timezone).t, clock)
    /\ TimeEqual(result.map.EndTime, clock)
    /\ result.map.EndTime.loc = LoadLocation(timezone).loc


(***************************************************************************)
(* Properties of calls made at the same time.                              *)
(***************************************************************************)
\* what ParseFuzzyTimestamp returns for the layers' outcomes d, p, n and s
\* when it runs alone: the first success in the order of the layers, the
\* duration and natural-language layers only with the flag
FirstOf(flag, d, p, n, s) ==
  IF flag /\ d.ok THEN Success(d.t, "duration")
  ELSE IF p.ok THEN Success(p.t, "dateparse")
  ELSE IF flag /\ n.ok THEN Success(n.t, "nlp")
  ELSE IF s.ok THEN Success(s.t, "strict")
  ELSE s

AloneIn(c, l) ==
  FirstOf(c.fuzzy, parseDurationRelative(c.input, In(c.ref, l)),
          DateParseIn(c.input, l),
          parseWithWhenLibrary(c.input, In(c.ref, l), l),
          ParseTimestamp(c.input, c.timezone))

\* what call c returns when no other call runs
Alone(c) ==
  CASE c.op = "ParseTimestamp" -> ParseTimestamp(c.input, c.timezone)
    [] c.op = "FormatDuration" ->
         TextResult(formatDuration(c.args.seconds, c.args.style, c.args.isNegative))
    [] OTHER -> AloneIn(c, LoadLocation(c.timezone).loc)

\* C23: the core operations are safe to call concurrently without a lock:
\* under every interleaving of the steps of two calls, each call returns
\* what it returns when it runs alone.
C23_ConcurrentCalls ==
  Len(waiting) = 1 =>
    /\ pc = "done" => result = Alone(ThisCall)
    /\ waiting[1].pc = "done" => waiting[1].result = Alone(waiting[1].call)

\* a call in New York has returned an instant while a call in Tokyo, begun
\* before it returned, is between two of its layers
C23_Witness ==
  /\ Len(waiting) = 1
  /\ op = "ParseFuzzyTimestamp" /\ pc = "done" /\ timezone = "America/New_York"
  /\ result.ok /\ result.by = "nlp"
  /\ waiting[1].call = OtherCall /\ waiting[1].pc = "layer3"
  /\ waiting[1].loc = "Asia/Tokyo"


(***************************************************************************)
(* Properties of the fuzzy flag of time_difference and time_since.         *)
(***************************************************************************)
\* what ParseFuzzyTimestamp returns for the text, with the flag set, in the
\* timezone and at the reference of the handler that is running
FuzzyOf(text) ==
  Alone([op |-> "ParseFuzzyTimestamp", input |-> text,
         timezone |-> handlerTimezone(timezone), fuzzy |-> TRUE, ref |-> ref,
         args |-> NoArgs])

\* C24: time_difference and time_since honour enable_fuzzy_parsing: with the
\* flag set, a timestamp argument that the four-layer chain accepts (a
\* duration, a natural-language phrase, a timestamp in a standard format) is
\* accepted by the operation and resolved to the instant ParseFuzzyTimestamp
\* returns for it.
C24_FuzzyHonoured ==
  /\ (op = "handleTimeSince" /\ pc = "done" /\ fuzzy /\ FuzzyOf(input).ok) =>
       /\ result.ok
       /\ result.map.seconds = MillisFrom(FuzzyOf(input).t, clock)
  /\ (op = "handleTimeDifference" /\ pc = "done" /\ fuzzy
        /\ args.unit \in DifferenceUnits \cup {""}
        /\ FuzzyOf(input).ok /\ FuzzyOf(args.timestamp2).ok) =>
       /\ result.ok
       /\ result.map.seconds = MillisFrom(FuzzyOf(input).t, FuzzyOf(args.timestamp2).t)


(***************************************************************************)
(* Properties of the pages of list_timezones.                              *)
(***************************************************************************)
AllUnset == args.limit = 0 /\ args.page = 0 /\ args.filter = ""

\* the list the pages are cut from: the identifiers of the popular list, or
\* of the whole list, that contain the filter, letter case apart
FilteredList ==
  filteredTimezones(IF AllUnset THEN popularIds ELSE GetAllTimezoneIDs,
                    ToLower(args.filter))

Smaller(a, b) == IF a < b THEN a ELSE b

\* the entries at positions from (0-based, inclusive) up to to (exclusive)
Positions(list, from, to) == [i \in 1..(to - from) |-> list[from + i]]

PageOf(m, list) ==
  Positions(list, Smaller((m.page - 1) * m.limit, Len(list)),
            Smaller(m.page * m.limit, Len(list)))

\* C25: list_timezones paginates the filtered list consistently, for a limit
\* and a page that are not negative.  The limit in force is 25, over the
\* popular list, when limit, page and filter are all unset, 100 when the
\* limit alone is unset, and never more than 100; for the page p >= 1 in
\* force the entries returned are those at the positions from (p-1)*limit
\* up to min(p*limit, total_filtered) of the filtered list, so that
\* returned_count <= limit and a page beyond the data is empty and has no
\* next page; total_pages is total_filtered / limit rounded up,
\* has_next_page is page < total_pages, has_prev_page is page > 1.
C25_Pagination ==
  (op = "handleListTimezones" /\ pc = "done" /\ args.limit >= 0 /\ args.page >= 0) =>
    /\ result.ok
    /\ result.map.using_popular = AllUnset
    /\ result.map.limit = (IF AllUnset THEN 25
                           ELSE IF args.limit = 0 THEN 100
                           ELSE Smaller(args.limit, 100))
    /\ result.map.limit <= 100
    /\ result.map.page = (IF args.page = 0 THEN 1 ELSE args.page)
    /\ result.map.page >= 1
    /\ result.map.total_filtered = Len(FilteredList)
    /\ result.map.timezones = PageOf(result.map, FilteredList)
    /\ result.map.returned_count = Len(result.map.timezones)
    /\ result.map.returned_count <= result.map.limit
    /\ (result.map.page - 1) * result.map.limit >= Len(FilteredList) =>
         result.map.timezones = << >> /\ ~result.map.has_next_page
    /\ result.map.total_pages * result.map.limit >= Len(FilteredList)
    /\ (result.map.total_pages - 1) * result.map.limit < Len(FilteredList)
    /\ result.map.has_next_page = (result.map.page < result.map.total_pages)
    /\ result.map.has_prev_page = (result.map.page > 1)

\* the third page of a hundred of the whole list: the entries after the
\* two hundredth, fewer than the limit, and no page after it
C25_Witness ==
  /\ op = "handleListTimezones" /\ pc = "done"
  /\ args.limit = 150 /\ args.page = 3 /\ args.filter = ""
  /\ result.ok /\ result.map.limit = 100 /\ result.map.total_pages = 3
  /\ result.map.returned_count = Len(GetAllTimezoneIDs) - 200
  /\ result.map.returned_count \in 1..99
  /\ result.map.timezones[1] = GetAllTimezoneIDs[201]
  /\ ~result.map.has_next_page /\ result.map.has_prev_page


\* C30: handleListTimezones returns a well-formed result for every integer
\* limit and page, negative ones included: it never takes a slice outside
\* the filtered list (the response is a result and not a panic), and
\* 0 <= returned_count <= total_filtered holds in every response.
C30_SliceInBounds ==
  (op = "handleListTimezones" /\ pc = "done") =>
    /\ result.ok
    /\ result.map.returned_count >= 0
    /\ result.map.returned_count <= result.map.total_filtered

\* what holds for a limit or a page below zero: the call panics exactly
\* when the page it asks for begins inside the list and either begins
\* before the first entry or, the limit being negative, ends before it
\* begins
C30_PanicsWhenNegative ==
  (op = "handleListTimezones" /\ pc = "done") =>
    (~result.ok <=>
       /\ (pageOf(args.page) - 1) * limitOf(args.limit, AllUnset) < Len(FilteredList)
       /\ \/ (pageOf(args.page) - 1) * limitOf(args.limit, AllUnset) < 0
          \/ limitOf(args.limit, AllUnset) < 0)


(***************************************************************************)
(* Properties of parse_timestamp.                                          *)
(***************************************************************************)
\* the date and the time of day that the timestamps without a zone spell
ZonelessInputs ==
  {"2024-01-15 14:30:00", "2025-07-19T08:45:40", "2025-03-09 02:30:00", "2025-08-12"}

DateOf(text) == Sub(text, 1, 10)

ClockOf(text) == IF Len(text) = 10 THEN "00:00:00" ELSE Sub(text, 12, 19)

\* the location the timestamp is to be read in, and the one it is to be
\* rendered in
SourceLoc ==
  LoadLocation(IF args.source = "" THEN args.target ELSE args.source).loc

TargetLoc == LoadLocation(args.target).loc

\* the instant whose unix value the result reports, in the target location
Reported == [unix |-> Atoi(result.map.unix), ms |-> 0, loc |-> TargetLoc]

\* C26: parse_timestamp reads a timestamp without a zone in source_timezone,
\* or in target_timezone when there is no source, and renders the instant in
\* target_timezone: the unix value is that of the wall clock in the source
\* timezone (of an hour daylight time skips, the instant at one of the two
\* offsets of the location), and iso, date and time are that instant in the
\* target timezone.  14:30 in UTC is 09:30 in America/New_York in January.
C26_Reprojection ==
  (op = "handleParseTimestamp" /\ pc = "returned" /\ input \in ZonelessInputs
     /\ LoadLocation(args.source).ok /\ LoadLocation(args.target).ok) =>
    /\ result.ok
    /\ \E off \in OffsetsOf(SourceLoc) :
         Atoi(result.map.unix) = InstantAt(DateOf(input), ClockOf(input), off)
    /\ ~NoSuchWall(SourceLoc, DateOf(input), ClockOf(input)) =>
         Wall(In(Reported, SourceLoc)) = WallOf(DateOf(input), ClockOf(input))
    /\ result.map.iso = FormatRFC3339(Reported)
    /\ result.map.date = Sub(formatStamp(Wall(Reported), " "), 1, 10)
    /\ result.map.time = Sub(formatStamp(Wall(Reported), " "), 12, 19)
    /\ result.map.timezone = (IF args.target = "" THEN "UTC" ELSE args.target)
    /\ (input = "2024-01-15 14:30:00" /\ args.source = "UTC"
          /\ args.target = "America/New_York") =>
         /\ result.map.unix = "1705329000"
         /\ result.map.iso = "2024-01-15T09:30:00-05:00"
         /\ result.map.time = "09:30:00"

\* 08:45:40 on a day of July, read in Tokyo, has been reported as 19:45:40
\* of the day before in New York
C26_Witness ==
  /\ op = "handleParseTimestamp" /\ pc = "returned"
  /\ input = "2025-07-19T08:45:40"
  /\ args.source = "Asia/Tokyo" /\ args.target = "America/New_York"
  /\ result.ok
  /\ result.map.date = "2025-07-18" /\ result.map.time = "19:45:40"
  /\ result.map.iso = "2025-07-18T19:45:40-04:00"


\* the labels of typical_activity
ActivityLabels ==
  {"commute_time", "lunch_time", "dinner_time", "sleeping_time", "work_time",
   "leisure_time"}

\* the time_of_day the ranges of hours name
DayPart(h) ==
  CASE h \in 5..8 -> "early_morning"
    [] h \in 9..11 -> "morning"
    [] h \in 12..16 -> "afternoon"
    [] h \in 17..20 -> "evening"
    [] OTHER -> "late_night"

\* the fields of m are those of hour h of a day that is a weekend or not
Classified(m, h, weekend) ==
  /\ m.hour_24 = h
  /\ m.time_of_day = DayPart(h)
  /\ m.is_weekend = weekend
  /\ m.is_business_hours = (~weekend /\ 9 <= h /\ h < 17)
  /\ m.typical_activity \in ActivityLabels
  /\ m.typical_activity = "work_time" => m.is_business_hours

\* C27: timestamp_context gives every hour 0..23 of every weekday one value of
\* each field: time_of_day is early_morning for 5..8, morning for 9..11,
\* afternoon for 12..16, evening for 17..20 and late_night otherwise;
\* is_weekend holds iff the day is Saturday or Sunday; is_business_hours holds
\* iff the day is no weekend and 9 <= hour < 17; typical_activity is one of
\* its labels, and work_time only when is_business_hours holds.
C27_ContextClassification ==
  (op = "handleTimestampContext" /\ pc = "returned" /\ result.ok)
    => \A d \in ContextDates, h \in 0..23 :
         input = LocalInput(d, " ", Pad(h, 2) \o ":30:00")
           => Classified(result.map, h, d \in {"2025-08-10", "2025-08-16"})

\* Wednesday 2025-08-13 at 10:30 in New York is reported as work_time
C27_Witness ==
  /\ op = "handleTimestampContext" /\ pc = "returned" /\ result.ok
  /\ input = "2025-08-13 10:30:00" /\ timezone = "America/New_York"
  /\ result.map.typical_activity = "work_time"
  /\ result.map.time_of_day = "morning"
  /\ result.map.day_of_week = "Wednesday"


\* s has the shape YYYY-MM-DD
DateOnlyShape(s) ==
  /\ Len(s) = 10
  /\ \A i \in {1, 2, 3, 4, 6, 7, 9, 10} : IsDigit(Ch(s, i))
  /\ Ch(s, 5) = "-" /\ Ch(s, 8) = "-"

\* the map has the rendering of a date-only input: the result is a date and
\* the description names no clock time
DateOnlyRendering(m) ==
  /\ DateOnlyShape(m.result)
  /\ ~Contains(m.description, " at ")

\* the map keeps the time of day
ClockRendering(m) ==
  /\ Len(m.result) = 19 /\ DateOnlyShape(Sub(m.result, 1, 10))
  /\ Contains(m.description, " at ")
  /\ Sub(m.description, Len(m.description) - 1, Len(m.description)) \in {"AM", "PM"}

\* C28: add_time renders its result as "YYYY-MM-DD", described without a
\* clock time, exactly when the timestamp argument is a date-only YYYY-MM-DD
\* string; for every other accepted input, those of the duration and the
\* natural-language layer included, the result is "YYYY-MM-DD HH:MM:SS" and
\* the description ends with " at <h:mm AM/PM>".
C28_DateOnlyExactly ==
  (op = "handleAddTime" /\ pc = "returned" /\ result.ok)
    => IF DateOnlyShape(input) THEN DateOnlyRendering(result.map)
       ELSE ClockRendering(result.map)

\* the rendering follows the length of the argument, ten characters or not
C28_DateOnlyByLength ==
  (op = "handleAddTime" /\ pc = "returned" /\ result.ok)
    => IF Len(input) = 10 THEN DateOnlyRendering(result.map)
       ELSE ClockRendering(result.map)


\* the place of a layer in the chain
LayerRank(layer) ==
  CASE layer = "duration" -> 1 [] layer = "dateparse" -> 2 [] layer = "nlp" -> 3
    [] layer = "strict" -> 4

\* the layers attempted so far are four at most and each comes later in the
\* chain than the ones before it
LayersOnce ==
  /\ Len(attempted) <= 4
  /\ \A i, j \in 1..Len(attempted) :
       i < j => LayerRank(attempted[i].layer) < LayerRank(attempted[j].layer)

\* the call has returned
Returned == pc = "done"

\* after the return no layer is attempted
NoRetry == Returned => (attempted' = attempted /\ Returned')

ThreeParts == "3 days and 2 hours and 30 minutes ago"

\* the expression of three parts: the first part is "3 days ago" and the
\* second "2 hours and 30 minutes ago", in which the grammar finds
\* "30 minutes ago"; the 2 hours are counted only by a decomposition of the
\* second part
PartsOnce ==
  (op = "ParseFuzzyTimestamp" /\ pc = "done" /\ input = ThreeParts /\ fuzzy)
    => /\ result.ok
       /\ LastAttempted.layer = "nlp"
       /\ result.t.unix = ref.unix - 3 * 86400 - 30 * 60

\* C29: every call of ParseFuzzyTimestamp terminates, having attempted each
\* layer once at most (four attempts at most, no attempt after the return and
\* none of a layer before the last one attempted), and the decomposition of a
\* compound expression gives each part to the grammar once, not to the
\* compound logic or to the chain of layers again.
C29_Terminates ==
  /\ [](LayersOnce /\ PartsOnce)
  /\ [][NoRetry]_vars
  /\ <>Returned

\* the expression of three parts has been through the layers duration,
\* dateparse and natural language, each once, and the call has returned what
\* the grammar made of the two parts
C29_Witness ==
  /\ op = "ParseFuzzyTimestamp" /\ pc = "done" /\ fuzzy
  /\ input = ThreeParts /\ result.ok
  /\ Len(attempted) = 3 /\ LastAttempted.layer = "nlp"
  /\ result.t.unix = ref.unix - 3 * 86400 - 30 * 60

====
